---- MODULE Spec2Model ----
(***************************************************************************)
(* Model of efficient-notion-mcp (package notion): the markdown <-> block  *)
(* codec of notion/markdown.go and the pull / push / diff protocol of      *)
(* notion/sync.go.                                                         *)
(*                                                                         *)
(* Go strings are modelled as sequences of one-character strings, so that  *)
(* every byte-level scan of the source is carried out as written.  Go      *)
(* indices are 0-based; At and Slice translate them.  An index out of      *)
(* range is an evaluation error of the model, as it is a panic in Go.      *)
(***************************************************************************)
EXTENDS Integers, Sequences, FiniteSets, TLC

VARIABLES
    pc,         \* position of the operation that is running
    text,       \* parseInlineMarkdown: its argument
    i,          \* parseInlineMarkdown: the scan position
    result,     \* parseInlineMarkdown: the spans appended so far
    origin,     \* codec: where the block list came from ("markdown", "api", "wire")
    markdown,   \* codec: the markdown text given to MarkdownToBlocks
    blocks,     \* codec: the block list
    rendered,   \* codec: BlocksToMarkdown(blocks)
    blocks2,    \* codec: MarkdownToBlocks(rendered)
    rendered2,  \* codec: BlocksToMarkdown(blocks2)
    op,         \* sync: the Client method that was called
    file,       \* sync: the content of the markdown file
    remote,     \* sync: the top-level blocks of the Notion page
    title,      \* sync: the title of the Notion page
    pageID,     \* sync: the page id the method works on
    parsed,     \* sync: what the frontmatter parser returned
    childPagesInMarkdown, \* PushPage: the child-page markers of the file
    newBlocks,  \* PushPage: the blocks built from the file
    currentBlocks, \* PushPage: the blocks fetchAllBlocks returned
    strategy,   \* PushPage: the function that pushes ("simple", "preserve")
    anchorBlockID, \* pushPagePreservePositions: the placeholder block
    idx,        \* sync: index of the running loop
    off,        \* sync: offset of the next batch
    calls,      \* sync: the remote calls issued, in order
    err,        \* sync: the error returned ("" while there is none)
    output,     \* sync: the string returned
    userCache,  \* Client: the user id -> name cache
    userID      \* resolveUserName: its argument

inlineVars == <<text, i, result>>

codecVars == <<origin, markdown, blocks, rendered, blocks2, rendered2>>

clientVars == <<userCache, userID>>

syncVars ==
    <<op, file, remote, title, pageID, parsed, childPagesInMarkdown, newBlocks,
      currentBlocks, strategy, anchorBlockID, idx, off, calls, err, output, clientVars>>

vars == <<pc, inlineVars, codecVars, syncVars>>

InlineIdle == text = <<>> /\ i = 0 /\ result = <<>>

CodecIdle ==
    /\ origin = "" /\ markdown = <<>> /\ blocks = <<>>
    /\ rendered = <<>> /\ blocks2 = <<>> /\ rendered2 = <<>>

NoParse == [by |-> ""]

\* NewClient: the cache is an empty map.
ClientIdle == userCache = <<>> /\ userID = <<>>

SyncIdle ==
    /\ op = "" /\ file = <<>> /\ remote = <<>> /\ title = <<>> /\ pageID = <<>>
    /\ parsed = NoParse /\ childPagesInMarkdown = <<>> /\ newBlocks = <<>>
    /\ currentBlocks = <<>> /\ strategy = "" /\ anchorBlockID = <<>>
    /\ idx = 0 /\ off = 0 /\ calls = <<>> /\ err = "" /\ output = <<>>
    /\ ClientIdle

----------------------------------------------------------------------------
(* Bounds of the model *)

MaxInlineFrags == 4

MaxLines == 3

MaxBlocks == 4

MaxTableLines == 4

MaxLookups == 4

----------------------------------------------------------------------------
(* Go string primitives *)

NL == "\n"

\* the backquote byte (a backquote cannot be written inside a TLA+ string)
BT == "bq"

At(s, k) == s[k + 1]

Slice(s, a, b) == SubSeq(s, a + 1, b)

From(s, a) == SubSeq(s, a + 1, Len(s))

Min(S) == CHOOSE x \in S : \A y \in S : x <= y

Max(S) == CHOOSE x \in S : \A y \in S : x >= y

HasPrefix(s, p) == Len(s) >= Len(p) /\ SubSeq(s, 1, Len(p)) = p

HasSuffix(s, p) == Len(s) >= Len(p) /\ SubSeq(s, Len(s) - Len(p) + 1, Len(s)) = p

TrimPrefix(s, p) == IF HasPrefix(s, p) THEN From(s, Len(p)) ELSE s

TrimSuffix(s, p) == IF HasSuffix(s, p) THEN SubSeq(s, 1, Len(s) - Len(p)) ELSE s

\* strings.Index: the first 0-based index of sub in s, or -1
Index(s, sub) ==
    LET hits == {k \in 0..(Len(s) - Len(sub)) : Slice(s, k, k + Len(sub)) = sub}
    IN  IF hits = {} THEN -1 ELSE Min(hits)

\* strings.LastIndex
LastIndex(s, sub) ==
    LET hits == {k \in 0..(Len(s) - Len(sub)) : Slice(s, k, k + Len(sub)) = sub}
    IN  IF hits = {} THEN -1 ELSE Max(hits)

Contains(s, sub) == Index(s, sub) >= 0

IsSpace(c) == c \in {" ", NL, "\t", "\r"}

\* strings.TrimSpace
TrimSpace(s) ==
    LET keep == {k \in 1..Len(s) : ~IsSpace(s[k])}
    IN  IF keep = {} THEN <<>> ELSE SubSeq(s, Min(keep), Max(keep))

RECURSIVE Flatten(_)
Flatten(ss) == IF ss = <<>> THEN <<>> ELSE Head(ss) \o Flatten(Tail(ss))

\* all sequences over S of length 0..n
RECURSIVE SeqsUpTo(_, _)
SeqsUpTo(S, n) ==
    IF n = 0 THEN {<<>>}
    ELSE LET shorter == SeqsUpTo(S, n - 1)
         IN  shorter \cup {Append(s, x) : s \in {t \in shorter : Len(t) = n - 1}, x \in S}

----------------------------------------------------------------------------
(* markdown.go: the inline decoder *)

findClosing(s, pos, marker) ==
    LET hits == {k \in pos..(Len(s) - Len(marker)) : Slice(s, k, k + Len(marker)) = marker}
    IN  IF hits = {} THEN -1 ELSE Min(hits)

findClosingSingle(s, pos, marker) ==
    LET hits == {k \in pos..(Len(s) - 1) : At(s, k) = marker}
    IN  IF hits = {} THEN -1 ELSE Min(hits)

S_notion == <<"n", "o", "t", "i", "o", "n", ":", "/", "/">>

\* One rich_text element.  kind "text": content with annotations and an
\* optional link; kind "mention": a page mention, which carries the page id
\* and (when it comes from the API) the plain_text the API computed.
Span(kind, content, bold, italic, code, hasLink, url, page) ==
    [kind |-> kind, content |-> content, bold |-> bold, italic |-> italic,
     code |-> code, strike |-> FALSE, hasLink |-> hasLink, url |-> url,
     page |-> page, plain |-> <<>>]

PlainSpan(content) == Span("text", content, FALSE, FALSE, FALSE, FALSE, <<>>, <<>>)

IsSpecial(c) == c \in {"*", BT, "["}

BoldBranch_shortAdvance(s, k, boldEnd) ==
    [span |-> Span("text", Slice(s, k + 2, boldEnd), TRUE, FALSE, FALSE, FALSE, <<>>, <<>>),
     next |-> boldEnd + 1]

\* The bold branch: the span between the two markers, and the scan resumes
\* after the closing marker.
BoldBranch(s, k, boldEnd) ==
    [span |-> Span("text", Slice(s, k + 2, boldEnd), TRUE, FALSE, FALSE, FALSE, <<>>, <<>>),
     next |-> boldEnd + 2]

\* One iteration of the scan loop at position k (k < len(text)): the span it
\* appends and the position it continues from.
InlineStep(s, k) ==
    LET n == Len(s)
        boldEnd ==
            IF k + 1 < n /\ At(s, k) = "*" /\ At(s, k + 1) = "*"
            THEN findClosing(s, k + 2, <<"*", "*">>) ELSE -1
        italicEnd ==
            IF At(s, k) = "*" /\ (k + 1 >= n \/ At(s, k + 1) # "*")
            THEN findClosingSingle(s, k + 1, "*") ELSE -1
        codeEnd ==
            IF At(s, k) = BT THEN findClosingSingle(s, k + 1, BT) ELSE -1
        closeBracket ==
            IF At(s, k) = "[" THEN findClosingSingle(s, k + 1, "]") ELSE -1
        closeParen ==
            IF closeBracket > 0 /\ closeBracket + 1 < n /\ At(s, closeBracket + 1) = "("
            THEN findClosingSingle(s, closeBracket + 2, ")") ELSE -1
        linkText == Slice(s, k + 1, closeBracket)
        linkURL == Slice(s, closeBracket + 2, closeParen)
        stops == {j \in k..(n - 1) : IsSpecial(At(s, j))}
        stop == IF stops = {} THEN n ELSE Min(stops)
    IN  IF boldEnd > 0 THEN BoldBranch(s, k, boldEnd)
        ELSE IF italicEnd > 0
        THEN [span |-> Span("text", Slice(s, k + 1, italicEnd), FALSE, TRUE, FALSE, FALSE, <<>>, <<>>),
              next |-> italicEnd + 1]
        ELSE IF codeEnd > 0
        THEN [span |-> Span("text", Slice(s, k + 1, codeEnd), FALSE, FALSE, TRUE, FALSE, <<>>, <<>>),
              next |-> codeEnd + 1]
        ELSE IF closeParen > 0
        THEN IF HasPrefix(linkURL, S_notion) /\ HasPrefix(linkText, <<"@">>)
             THEN [span |-> Span("mention", <<>>, FALSE, FALSE, FALSE, FALSE, <<>>,
                                 TrimPrefix(linkURL, S_notion)),
                   next |-> closeParen + 1]
             ELSE [span |-> Span("text", linkText, FALSE, FALSE, FALSE, TRUE, linkURL, <<>>),
                   next |-> closeParen + 1]
        ELSE IF stop > k
        THEN [span |-> PlainSpan(Slice(s, k, stop)), next |-> stop]
        ELSE [span |-> PlainSpan(<<At(s, k)>>), next |-> k + 1]

\* What the function returns once the loop has ended with spans.
InlineReturn(s, spans) == IF Len(spans) = 0 THEN <<PlainSpan(s)>> ELSE spans

\* The loops of this module bind what an iteration computes with CHOOSE over
\* a one-element set: the next iteration then starts from a value.
RECURSIVE InlineLoop(_, _, _)
InlineLoop(s, k, spans) ==
    IF k < Len(s)
    THEN CHOOSE r \in {InlineLoop(s, st.next, sp) :
                          st \in {InlineStep(s, k)}, sp \in {spans}} : TRUE
    ELSE spans

parseInlineMarkdown(s) == InlineReturn(s, InlineLoop(s, 0, <<>>))

----------------------------------------------------------------------------
(* markdown.go: the block decoder *)

\* How Go holds a block's rich_text / children slice.  MarkdownToBlocks builds
\* []map[string]any values (markdown.go:31,90,682); blocks decoded from an API
\* response by encoding/json hold []any.  The encoder's type assertions
\* (markdown.go:351,455) succeed on the second only.
GoTyped == "[]map[string]any"

GoJSON == "[]any"

Block(type, rich) ==
    [type |-> type, rich_text |-> rich, rep |-> GoTyped, checked |-> FALSE,
     language |-> <<>>, children |-> <<>>, table_width |-> 0,
     has_column_header |-> FALSE, id |-> <<>>, title |-> <<>>]

S_marker == <<"<", "!", "-", "-", " ", "c", "h", "i", "l", "d", "_", "p", "a", "g", "e", ":">>

S_markerEnd == <<"-", "-", ">">>

S_fence == <<BT, BT, BT>>

S_divider == <<"-", "-", "-">>

S_plainText == <<"p", "l", "a", "i", "n", " ", "t", "e", "x", "t">>

S_javascript == <<"j", "a", "v", "a", "s", "c", "r", "i", "p", "t">>

IsDigit(c) == c \in {"0", "1", "2", "3", "4", "5", "6", "7", "8", "9"}

\* The lines of s from position start on, after the lines in acc; text after
\* the last newline is a line when it is not empty.
RECURSIVE SplitLinesFrom(_, _, _)
SplitLinesFrom(s, start, acc) ==
    CHOOSE r \in
        {IF k = -1
         THEN IF start < Len(s) THEN Append(acc, From(s, start)) ELSE acc
         ELSE SplitLinesFrom(s, k + 1, Append(acc, Slice(s, start, k))) :
            k \in {findClosingSingle(s, start, NL)}} : TRUE

splitLines(s) == SplitLinesFrom(s, 0, <<>>)

\* strings.Split(s, sep) for a one-byte separator
RECURSIVE SplitFrom(_, _, _, _)
SplitFrom(s, sep, start, acc) ==
    CHOOSE r \in
        {IF k = -1 THEN Append(acc, From(s, start))
         ELSE SplitFrom(s, sep, k + 1, Append(acc, Slice(s, start, k))) :
            k \in {findClosingSingle(s, start, sep)}} : TRUE

Split(s, sep) == SplitFrom(s, sep, 0, <<>>)

\* strings.Join(parts, sep)
RECURSIVE Join(_, _)
Join(parts, sep) ==
    IF parts = <<>> THEN <<>>
    ELSE IF Len(parts) = 1 THEN parts[1]
    ELSE parts[1] \o sep \o Join(Tail(parts), sep)

LowerOf(c) == IF c = "J" THEN "j" ELSE IF c = "S" THEN "s" ELSE IF c = "G" THEN "g"
              ELSE IF c = "O" THEN "o" ELSE c

ToLower(s) == [k \in 1..Len(s) |-> LowerOf(s[k])]

\* The alias table and the known-language list, restricted to the entries the
\* model's fence lines can spell ("js", "go"); every other hint takes the
\* default, as in the source.
mapLanguageToNotion(lang0) ==
    LET lang == ToLower(TrimSpace(lang0))
    IN  IF lang = <<>> THEN S_plainText
        ELSE IF lang = <<"j", "s">> THEN S_javascript
        ELSE IF lang \in {<<"g", "o">>, S_javascript, S_plainText} THEN lang
        ELSE S_plainText

IsMarkerLine(line) == HasPrefix(line, S_marker) /\ HasSuffix(line, S_markerEnd)

IsFenceLine(line) == Len(line) >= 3 /\ Slice(line, 0, 3) = S_fence

parseCells(row0) ==
    LET r1 == TrimSpace(row0)
        r2 == IF Len(r1) > 0 /\ At(r1, 0) = "|" THEN From(r1, 1) ELSE r1
        r3 == IF Len(r2) > 0 /\ At(r2, Len(r2) - 1) = "|" THEN Slice(r2, 0, Len(r2) - 1) ELSE r2
        parts == Split(r3, "|")
    IN  [k \in 1..Len(parts) |-> TrimSpace(parts[k])]

isSeparator(row0) ==
    LET row == TrimSpace(row0)
    IN  /\ \A k \in 1..Len(row) : row[k] \in {"|", "-", ":", " "}
        /\ Contains(row, <<"-">>)

PadCells_cutOnly(cells, tableWidth) ==
    SubSeq(cells, 1, IF Len(cells) < tableWidth THEN Len(cells) ELSE tableWidth)

\* The cells of one data row, padded with empty cells to the table width and
\* cut to it.
PadCells(cells, tableWidth) ==
    [k \in 1..tableWidth |-> IF k <= Len(cells) THEN cells[k] ELSE <<>>]

NoTable == [type |-> "nil"]

parseMarkdownTable(rows) ==
    IF Len(rows) < 2 THEN NoTable
    ELSE LET kept == SelectSeq(rows, LAMBDA r : ~isSeparator(r) /\ Len(parseCells(r)) > 0)
             dataRows == [k \in 1..Len(kept) |-> parseCells(kept[k])]
         IN  IF Len(dataRows) = 0 THEN NoTable
             ELSE LET tableWidth == Len(dataRows[1])
                      rowBlock(cells) ==
                          LET padded == PadCells(cells, tableWidth)
                          IN  [c \in 1..Len(padded) |-> parseInlineMarkdown(padded[c])]
                  IN  [Block("table", <<>>) EXCEPT
                          !.table_width = tableWidth,
                          !.has_column_header = TRUE,
                          !.children = [r \in 1..Len(dataRows) |-> rowBlock(dataRows[r])]]

\* The index of the "." that ends a list ordinal, or -1 (markdown.go:131-140).
DotIdx(line) ==
    LET n == Len(line)
        js == 1..(IF n - 1 < 3 THEN n - 1 ELSE 3)
        isDot(j) == At(line, j) = "." /\ j + 1 < n /\ At(line, j + 1) = " "
        stops == {j \in js : isDot(j) \/ ~IsDigit(At(line, j))}
    IN  IF stops = {} THEN -1
        ELSE IF isDot(Min(stops)) THEN Min(stops) ELSE -1

FenceClose_toEnd(lines, k) == Len(lines)

\* The index of the line that closes the fence opened at line index k: the
\* first later line that starts with the fence, or len(lines) if none does.
FenceClose(lines, k) ==
    LET closers == {j \in (k + 1)..(Len(lines) - 1) : IsFenceLine(lines[j + 1])}
    IN  IF closers = {} THEN Len(lines) ELSE Min(closers)

\* One iteration of the line loop at line index k (0-based): the blocks it
\* appends and the index the loop continues from.
DecodeLine(lines, k) ==
    LET line == lines[k + 1]
        n == Len(line)
        one(b) == [out |-> <<b>>, next |-> k + 1]
        none == [out |-> <<>>, next |-> k + 1]
    IN  IF line = <<>> THEN none
        ELSE IF IsMarkerLine(line) THEN none
        ELSE IF n > 2 /\ At(line, 0) = "#" /\ At(line, 1) = " "
        THEN one(Block("heading_1", parseInlineMarkdown(From(line, 2))))
        ELSE IF n > 3 /\ Slice(line, 0, 3) = <<"#", "#", " ">>
        THEN one(Block("heading_2", parseInlineMarkdown(From(line, 3))))
        ELSE IF n > 4 /\ Slice(line, 0, 4) = <<"#", "#", "#", " ">>
        THEN one(Block("heading_3", parseInlineMarkdown(From(line, 4))))
        ELSE IF line = S_divider THEN one(Block("divider", <<>>))
        ELSE IF IsFenceLine(line)
        THEN LET codeEnd == FenceClose(lines, k)
                 last == IF codeEnd = Len(lines) THEN Len(lines) - 1 ELSE codeEnd
                 codeLines == SubSeq(lines, k + 2, codeEnd)
             IN  [out |-> <<[Block("code", <<PlainSpan(Join(codeLines, <<NL>>))>>) EXCEPT
                                   !.language = mapLanguageToNotion(From(line, 3))]>>,
                  next |-> last + 1]
        ELSE IF n > 5 /\ Slice(line, 0, 5) \in {<<"-", " ", "[", " ", "]">>, <<"-", " ", "[", "x", "]">>}
        THEN one([Block("to_do", parseInlineMarkdown(IF n > 6 THEN From(line, 6) ELSE <<>>))
                     EXCEPT !.checked = (At(line, 3) = "x")])
        ELSE IF n > 2 /\ Slice(line, 0, 2) = <<"-", " ">>
        THEN one(Block("bulleted_list_item", parseInlineMarkdown(From(line, 2))))
        ELSE IF n > 3 /\ IsDigit(At(line, 0)) /\ DotIdx(line) > 0
        THEN one(Block("numbered_list_item", parseInlineMarkdown(From(line, DotIdx(line) + 2))))
        ELSE IF n > 2 /\ Slice(line, 0, 2) = <<">", " ">>
        THEN one(Block("quote", parseInlineMarkdown(From(line, 2))))
        ELSE IF n > 0 /\ At(line, 0) = "|"
        THEN LET breaks == {j \in (k + 1)..(Len(lines) - 1) :
                               ~(Len(lines[j + 1]) > 0 /\ At(lines[j + 1], 0) = "|")}
                 stop == IF breaks = {} THEN Len(lines) ELSE Min(breaks)
                 tableBlock == parseMarkdownTable(SubSeq(lines, k + 1, stop))
             IN  [out |-> IF tableBlock # NoTable THEN <<tableBlock>> ELSE <<>>,
                  next |-> stop]
        ELSE one(Block("paragraph", parseInlineMarkdown(line)))

RECURSIVE DecodeLoop(_, _, _)
DecodeLoop(lines, k, acc) ==
    IF k < Len(lines)
    THEN CHOOSE r \in {DecodeLoop(lines, st.next, acc \o st.out) :
                          st \in {DecodeLine(lines, k)}} : TRUE
    ELSE acc

MarkdownToBlocks(md) == DecodeLoop(splitLines(md), 0, <<>>)

----------------------------------------------------------------------------
(* markdown.go: the block encoder *)

DigitChar(d) == <<"0", "1", "2", "3", "4", "5", "6", "7", "8", "9">>[d + 1]

\* fmt's %d of a non-negative int
RECURSIVE Digits(_)
Digits(n) == IF n < 10 THEN <<DigitChar(n)>> ELSE Digits(n \div 10) \o <<DigitChar(n % 10)>>

S_page == <<"P", "a", "g", "e">>

S_untitled == <<"U", "n", "t", "i", "t", "l", "e", "d">>

\* The markdown of one rich_text element (one iteration of the loop of
\* richTextToMarkdown).
SpanToMarkdown(sp) ==
    IF sp.kind = "mention"
    THEN <<"[", "@">> \o (IF sp.plain = <<>> THEN S_page ELSE sp.plain)
             \o <<"]", "(">> \o S_notion \o sp.page \o <<")">>
    ELSE LET c0 == sp.content
             c1 == IF sp.code THEN <<BT>> \o c0 \o <<BT>> ELSE c0
             c2 == IF sp.bold THEN <<"*", "*">> \o c1 \o <<"*", "*">> ELSE c1
             c3 == IF sp.italic THEN <<"*">> \o c2 \o <<"*">> ELSE c2
             c4 == IF sp.strike THEN <<"~", "~">> \o c3 \o <<"~", "~">> ELSE c3
         IN  IF sp.hasLink /\ sp.url # <<>>
             THEN <<"[">> \o c4 \o <<"]", "(">> \o sp.url \o <<")">>
             ELSE c4

richTextToMarkdown(richText) ==
    Flatten([k \in 1..Len(richText) |-> SpanToMarkdown(richText[k])])

\* content["rich_text"].([]any): the assertion fails on a slice of another Go
\* type, and the text is then that of a nil slice.
extractBlockText(b) ==
    IF b.rep = GoJSON THEN richTextToMarkdown(b.rich_text) ELSE <<>>

extractTableMarkdown(b) ==
    IF b.rep # GoJSON \/ Len(b.children) = 0 THEN <<>>
    ELSE LET rowText(r) ==
                 <<"|", " ">>
                 \o Join([c \in 1..Len(b.children[r]) |-> richTextToMarkdown(b.children[r][c])],
                         <<" ", "|", " ">>)
                 \o <<" ", "|", NL>>
             sepText ==
                 <<"|", " ">>
                 \o Join([c \in 1..Len(b.children[1]) |-> S_divider], <<" ", "|", " ">>)
                 \o <<" ", "|", NL>>
         IN  Flatten([r \in 1..Len(b.children) |->
                          IF r = 1 THEN rowText(r) \o sepText ELSE rowText(r)])

ResetListNum_never(st, blockType) == st.listNum

\* listNum after the reset test that opens each iteration.
ResetListNum(st, blockType) ==
    IF blockType # "numbered_list_item" /\ st.lastType = "numbered_list_item"
    THEN 1 ELSE st.listNum

\* One iteration of the block loop: st holds listNum and lastType; the result
\* holds what the iteration writes and the two locals after it.
EncodeBlock(st, b, trailingChildPages) ==
    LET blockType == b.type
        listNum == ResetListNum(st, blockType)
        t == extractBlockText(b)
        wrote(out) == [out |-> out, listNum |-> listNum, lastType |-> blockType]
    IN  IF blockType = "" THEN [out |-> <<>>, listNum |-> st.listNum, lastType |-> st.lastType]
        ELSE IF blockType = "heading_1" THEN wrote(<<"#", " ">> \o t \o <<NL, NL>>)
        ELSE IF blockType = "heading_2" THEN wrote(<<"#", "#", " ">> \o t \o <<NL, NL>>)
        ELSE IF blockType = "heading_3" THEN wrote(<<"#", "#", "#", " ">> \o t \o <<NL, NL>>)
        ELSE IF blockType = "paragraph" THEN wrote(t \o <<NL, NL>>)
        ELSE IF blockType = "bulleted_list_item" THEN wrote(<<"-", " ">> \o t \o <<NL>>)
        ELSE IF blockType = "numbered_list_item"
        THEN [out |-> Digits(listNum) \o <<".", " ">> \o t \o <<NL>>,
              listNum |-> listNum + 1, lastType |-> blockType]
        ELSE IF blockType = "to_do"
        THEN wrote(<<"-", " ", "[", IF b.checked THEN "x" ELSE " ", "]", " ">> \o t \o <<NL>>)
        ELSE IF blockType \in {"quote", "callout"} THEN wrote(<<">", " ">> \o t \o <<NL, NL>>)
        ELSE IF blockType = "code"
        THEN wrote(S_fence \o b.language \o <<NL>> \o t \o <<NL>> \o S_fence \o <<NL, NL>>)
        ELSE IF blockType = "divider" THEN wrote(S_divider \o <<NL, NL>>)
        ELSE IF blockType = "child_page"
        THEN IF b.id = <<>> THEN wrote(<<>>)
             ELSE IF b.id \in trailingChildPages
             THEN [out |-> <<>>, listNum |-> listNum, lastType |-> st.lastType]
             ELSE wrote(<<"[", "@">> \o (IF b.title = <<>> THEN S_untitled ELSE b.title)
                        \o <<"]", "(">> \o S_notion \o b.id \o <<")", NL, NL>>)
        ELSE IF blockType = "table" THEN wrote(extractTableMarkdown(b) \o <<NL>>)
        ELSE wrote(IF t # <<>> THEN t \o <<NL, NL>> ELSE <<>>)

\* What the loop writes for each block, in block order.
RECURSIVE EncodeLoop(_, _, _, _)
EncodeLoop(bs, k, st, trailingChildPages) ==
    IF k > Len(bs) THEN <<>>
    ELSE CHOOSE out \in
             {<<r.out>> \o EncodeLoop(bs, k + 1,
                                       [listNum |-> r.listNum, lastType |-> r.lastType],
                                       trailingChildPages) :
                 r \in {EncodeBlock(st, bs[k], trailingChildPages)}} : TRUE

BlocksToMarkdownWithChildPages(bs, trailingChildPages) ==
    Flatten(EncodeLoop(bs, 1, [listNum |-> 1, lastType |-> ""], trailingChildPages))

BlocksToMarkdown(bs) == BlocksToMarkdownWithChildPages(bs, {})

----------------------------------------------------------------------------
(* Specification SpecInline: parseInlineMarkdown run one loop iteration at *)
(* a time on every text made of at most MaxInlineFrags fragments.          *)

InlineFrags ==
    { <<"a">>, <<"*">>, <<"*", "*">>, <<BT>>, <<"[">>, <<"]">>, <<")">>,
      <<"]", "(">>, <<"[", "@">>, <<"]", "(">> \o S_notion }

InlineTexts == {Flatten(fs) : fs \in SeqsUpTo(InlineFrags, MaxInlineFrags)}

InitInline ==
    /\ pc = "scan"
    /\ text \in InlineTexts
    /\ i = 0
    /\ result = <<>>
    /\ CodecIdle
    /\ SyncIdle

InlineIterate ==
    /\ pc = "scan"
    /\ i < Len(text)
    /\ LET st == InlineStep(text, i)
       IN  /\ result' = Append(result, st.span)
           /\ i' = st.next
    /\ UNCHANGED <<pc, text, codecVars, syncVars>>

InlineFinish ==
    /\ pc = "scan"
    /\ ~(i < Len(text))
    /\ result' = InlineReturn(text, result)
    /\ pc' = "returned"
    /\ UNCHANGED <<text, i, codecVars, syncVars>>

NextInline == InlineIterate \/ InlineFinish

SpecInline == InitInline /\ [][NextInline]_vars

----------------------------------------------------------------------------
(* Specification SpecCodec: the two codec functions applied in turn,       *)
(* starting from a markdown text of at most MaxLines lines or from a list  *)
(* of at most MaxBlocks blocks as the API returns them.                    *)

Str_a == <<"a">>

CodecLines ==
    { <<>>,
      Str_a,
      <<"#", " ", "a">>,
      <<"-", " ", "a">>,
      <<"1", ".", " ", "a">>,
      <<"1", "2", ".", " ">>,
      <<"-", " ", "[", "x", "]", " ", "a">>,
      <<">", " ", "a">>,
      S_divider,
      S_fence \o <<"j", "s">>,
      <<"|", "a", "|">>,
      <<"*", "*", "a", "*", "*">> }

LinesToText(ls) == Flatten([k \in 1..Len(ls) |-> ls[k] \o <<NL>>])

CodecTexts == {LinesToText(ls) : ls \in SeqsUpTo(CodecLines, MaxLines)}

\* A block as encoding/json decodes it from an API response.
APIBlock(type, rich) == [Block(type, rich) EXCEPT !.rep = GoJSON]

BoldSpan(content) == Span("text", content, TRUE, FALSE, FALSE, FALSE, <<>>, <<>>)

APIBlocks ==
    { APIBlock("paragraph", <<PlainSpan(Str_a)>>),
      APIBlock("paragraph", <<>>),
      APIBlock("numbered_list_item", <<PlainSpan(Str_a)>>),
      APIBlock("numbered_list_item", <<BoldSpan(Str_a)>>),
      APIBlock("bulleted_list_item", <<PlainSpan(Str_a)>>),
      APIBlock("toggle", <<PlainSpan(Str_a)>>),
      [APIBlock("child_page", <<>>) EXCEPT !.id = <<"c">>, !.title = <<"t">>] }

APIBlockLists == SeqsUpTo(APIBlocks, MaxBlocks)

\* json.Marshal (doRequest) followed by json.Unmarshal (fetchAllBlocks): the
\* same content held in encoding/json's generic types.
JSONRoundTrip(bs) == [k \in 1..Len(bs) |-> [bs[k] EXCEPT !.rep = GoJSON]]

InitCodec ==
    /\ InlineIdle
    /\ SyncIdle
    /\ rendered = <<>> /\ blocks2 = <<>> /\ rendered2 = <<>>
    /\ \/ /\ pc = "text"
          /\ origin = "markdown"
          /\ markdown \in CodecTexts
          /\ blocks = <<>>
       \/ /\ pc = "blocks"
          /\ origin = "api"
          /\ markdown = <<>>
          /\ blocks \in APIBlockLists

Decode ==
    /\ pc = "text"
    /\ blocks' = MarkdownToBlocks(markdown)
    /\ pc' = "blocks"
    /\ UNCHANGED <<inlineVars, origin, markdown, rendered, blocks2, rendered2, syncVars>>

\* The block list goes through the JSON encoding, as it does between a push
\* and the next fetch.
Wire ==
    /\ pc = "blocks"
    /\ origin = "markdown"
    /\ blocks' = JSONRoundTrip(blocks)
    /\ origin' = "wire"
    /\ UNCHANGED <<pc, inlineVars, markdown, rendered, blocks2, rendered2, syncVars>>

Encode ==
    /\ pc = "blocks"
    /\ rendered' = BlocksToMarkdown(blocks)
    /\ pc' = "rendered"
    /\ UNCHANGED <<inlineVars, origin, markdown, blocks, blocks2, rendered2, syncVars>>

Redecode ==
    /\ pc = "rendered"
    /\ blocks2' = MarkdownToBlocks(rendered)
    /\ pc' = "redecoded"
    /\ UNCHANGED <<inlineVars, origin, markdown, blocks, rendered, rendered2, syncVars>>

Reencode ==
    /\ pc = "redecoded"
    /\ rendered2' = BlocksToMarkdown(blocks2)
    /\ pc' = "reencoded"
    /\ UNCHANGED <<inlineVars, origin, markdown, blocks, rendered, blocks2, syncVars>>

NextCodec == Decode \/ Wire \/ Encode \/ Redecode \/ Reencode

SpecCodec == InitCodec /\ [][NextCodec]_vars

----------------------------------------------------------------------------
(* Specification SpecTable: MarkdownToBlocks on texts of at most           *)
(* MaxTableLines lines that are table rows, separator rows, paragraphs or  *)
(* blank.                                                                  *)

TableLines ==
    { <<>>,
      Str_a,
      <<"|", "a", "|">>,
      <<"|", "a", "|", "b", "|">>,
      <<"|", " ", "b", " ", "|", "a", "|", "a", "|", " ">>,
      <<"|", "-", "|">>,
      <<"|", " ", ":", " ", "|">> }

TableTexts == {LinesToText(ls) : ls \in SeqsUpTo(TableLines, MaxTableLines)}

InitTable ==
    /\ InlineIdle
    /\ SyncIdle
    /\ pc = "text"
    /\ origin = "markdown"
    /\ markdown \in TableTexts
    /\ blocks = <<>>
    /\ rendered = <<>> /\ blocks2 = <<>> /\ rendered2 = <<>>

NextTable == Decode \/ Encode

SpecTable == InitTable /\ [][NextTable]_vars

----------------------------------------------------------------------------
(* sync.go: the frontmatter of a pulled file *)

MaxTitleFrags == 2

MaxIdLen == 1

MaxPullBlocks == 3

ReplaceAll(s, c, new) == Flatten([k \in 1..Len(s) |-> IF s[k] = c THEN new ELSE <<s[k]>>])

S_open == <<"-", "-", "-", NL>>

S_close == <<NL, "-", "-", "-", NL>>

S_notionID == <<"n", "o", "t", "i", "o", "n", "_", "i", "d", ":">>

S_childPages == <<"c", "h", "i", "l", "d", "_", "p", "a", "g", "e", "s", ":">>

S_item == <<" ", " ", "-", " ">>

\* time.Now().Format(time.RFC3339): a timestamp, on one line.
S_pulledAt == <<"2", "0", "0", "6", "-", "0", "1", "-", "0", "2", "T", "1", "5", ":", "0", "4", ":", "0", "5", "Z">>

\* The ids of the child_page blocks, in block order (first pass of PullPage).
ChildPageIDs(bs) ==
    LET kept == SelectSeq(bs, LAMBDA b : b.type = "child_page" /\ b.id # <<>>)
    IN  [k \in 1..Len(kept) |-> kept[k].id]

TrailingChildPages_all(bs) ==
    {bs[k].id : k \in {j \in 1..Len(bs) : bs[j].type = "child_page" /\ bs[j].id # <<>>}}

\* The child pages after the last block that is not a child page (second pass).
TrailingChildPages(bs) ==
    LET lastNonChildPageIdx == Max({0} \cup {k \in 1..Len(bs) : bs[k].type # "child_page"})
    IN  {bs[k].id : k \in {j \in 1..Len(bs) :
                              /\ bs[j].type = "child_page"
                              /\ j > lastNonChildPageIdx
                              /\ bs[j].id # <<>>}}

\* The comments section PullPage appends to the markdown.
CommentsMarkdown(comments) ==
    IF Len(comments) = 0 THEN <<>>
    ELSE <<NL, "-", "-", "-", NL, NL, "#", "#", " ", "C", "o", "m", "m", "e", "n", "t", "s", NL, NL>>
         \o Flatten([k \in 1..Len(comments) |->
                <<">", " ", "*", "*">> \o comments[k].author \o <<"*", "*", " ", "*", "(">> \o comments[k].date
                \o <<")", "*", ":", " ">> \o comments[k].body \o <<NL, NL>>])

\* The header PullPage writes at the top of the file.
Frontmatter(id, pageTitle, childPageIDs) ==
    <<"-", "-", "-", NL, "n", "o", "t", "i", "o", "n", "_", "i", "d", ":", " ">> \o id \o <<NL, "t", "i", "t", "l", "e", ":", " ">> \o pageTitle
    \o <<NL, "p", "u", "l", "l", "e", "d", "_", "a", "t", ":", " ">> \o S_pulledAt \o <<NL>>
    \o (IF Len(childPageIDs) > 0
        THEN S_childPages \o <<NL>>
             \o Flatten([k \in 1..Len(childPageIDs) |-> S_item \o childPageIDs[k] \o <<NL>>])
        ELSE <<>>)
    \o <<"-", "-", "-", NL, NL>>

\* State of the line loop of parseFrontmatterFull after one more line.
FullLine(st, line) ==
    IF HasPrefix(line, S_notionID)
    THEN [st EXCEPT !.pageID = TrimSpace(TrimPrefix(line, S_notionID)), !.inChildPages = FALSE]
    ELSE IF HasPrefix(line, S_childPages) THEN [st EXCEPT !.inChildPages = TRUE]
    ELSE IF st.inChildPages /\ HasPrefix(line, S_item)
    THEN LET cpID == TrimSpace(TrimPrefix(line, S_item))
         IN  IF cpID # <<>> THEN [st EXCEPT !.childPages = Append(@, cpID)] ELSE st
    ELSE IF ~HasPrefix(line, <<" ", " ">>) THEN [st EXCEPT !.inChildPages = FALSE]
    ELSE st

RECURSIVE FullLines(_, _)
FullLines(st, lines) ==
    IF lines = <<>> THEN st
    ELSE CHOOSE r \in {FullLines(next, Tail(lines)) : next \in {FullLine(st, Head(lines))}} : TRUE

parseFrontmatterFull(c) ==
    LET miss == [by |-> "full", pageID |-> <<>>, childPages |-> <<>>, markdown |-> c]
    IN  IF ~HasPrefix(c, S_open) THEN miss
        ELSE LET endIdx == Index(From(c, 4), S_close)
             IN  IF endIdx = -1 THEN miss
                 ELSE LET st == FullLines([pageID |-> <<>>, childPages |-> <<>>,
                                           inChildPages |-> FALSE],
                                          Split(Slice(c, 4, 4 + endIdx), NL))
                      IN  [by |-> "full", pageID |-> st.pageID,
                           childPages |-> st.childPages,
                           markdown |-> From(c, 4 + endIdx + 5)]

parseFrontmatter_anyLine(c) ==
    LET lines == Split(c, NL)
        hits == {k \in 1..Len(lines) : HasPrefix(lines[k], S_notionID)}
    IN  [by |-> "id",
         pageID |-> IF hits = {} THEN <<>>
                    ELSE TrimSpace(TrimPrefix(lines[Min(hits)], S_notionID)),
         childPages |-> <<>>,
         markdown |-> c]

\* The first notion_id line decides (the loop breaks there).
parseFrontmatter(c) ==
    LET miss == [by |-> "id", pageID |-> <<>>, childPages |-> <<>>, markdown |-> c]
    IN  IF ~HasPrefix(c, S_open) THEN miss
        ELSE LET endIdx == Index(From(c, 4), S_close)
             IN  IF endIdx = -1 THEN miss
                 ELSE LET lines == Split(Slice(c, 4, 4 + endIdx), NL)
                          hits == {k \in 1..Len(lines) : HasPrefix(lines[k], S_notionID)}
                      IN  [by |-> "id",
                           pageID |-> IF hits = {} THEN <<>>
                                      ELSE TrimSpace(TrimPrefix(lines[Min(hits)], S_notionID)),
                           childPages |-> <<>>,
                           markdown |-> From(c, 4 + endIdx + 5)]

----------------------------------------------------------------------------
(* Specification SpecFrontmatter: PullPage writes a file for a page with a *)
(* title of at most MaxTitleFrags fragments, an id of at most MaxIdLen     *)
(* characters and at most MaxPullBlocks blocks; the file is then parsed.   *)

TitleFrags == { <<"t">>, <<NL, "n", "o", "t", "i", "o", "n", "_", "i", "d", ":", " ", "x">>, <<NL, "-", "-", "-", NL>>, <<NL, "c", "h", "i", "l", "d", "_", "p", "a", "g", "e", "s", ":", NL, " ", " ", "-", " ", "x">> }

Titles == {Flatten(fs) : fs \in SeqsUpTo(TitleFrags, MaxTitleFrags)}

PageIDs == SeqsUpTo({"p", "-"}, MaxIdLen)

PullBlocks ==
    { [APIBlock("child_page", <<>>) EXCEPT !.id = <<"c">>, !.title = <<"t", "c">>],
      [APIBlock("child_page", <<>>) EXCEPT !.id = <<"d", "-", "e">>, !.title = <<"t", "d">>],
      [APIBlock("paragraph", <<PlainSpan(Str_a)>>) EXCEPT !.id = <<"x">>] }

PullComments ==
    { <<>>, <<[author |-> <<"u">>, date |-> <<"J", "a", "n", " ", "2", ",", " ", "2", "0", "0", "6">>, body |-> <<"c">>]>> }

InitFrontmatter ==
    /\ InlineIdle /\ CodecIdle /\ ClientIdle
    /\ pc = "pull"
    /\ op = ""
    /\ file = <<>>
    /\ remote \in SeqsUpTo(PullBlocks, MaxPullBlocks)
    /\ title \in Titles
    /\ pageID \in PageIDs
    /\ parsed = NoParse /\ childPagesInMarkdown = <<>> /\ newBlocks = <<>>
    /\ currentBlocks = <<>> /\ strategy = "" /\ anchorBlockID = <<>>
    /\ idx = 0 /\ off = 0 /\ calls = <<>> /\ err = "" /\ output = <<>>

\* PullPage: the title and the blocks are fetched, the file is written.  A
\* title that cannot be fetched is replaced by the page id; blocks that
\* cannot be fetched, or a file that cannot be written, end the pull.
PullPage ==
    /\ pc = "pull"
    /\ op' = "pull"
    /\ pageID' = ReplaceAll(pageID, "-", <<>>)
    /\ \E titleOK \in BOOLEAN, outcome \in {"ok", "fetch", "write"}, comments \in PullComments :
          LET t == IF titleOK THEN title ELSE pageID'
              md == BlocksToMarkdownWithChildPages(remote, TrailingChildPages(remote))
                    \o CommentsMarkdown(comments)
          IN  /\ title' = t
              /\ IF outcome = "ok"
                 THEN /\ file' = Frontmatter(pageID', t, ChildPageIDs(remote)) \o md
                      /\ output' = file'
                      /\ err' = ""
                      /\ pc' = "pulled"
                 ELSE /\ err' = IF outcome = "fetch" THEN "failed to fetch blocks"
                                ELSE "failed to write file"
                      /\ pc' = "done"
                      /\ UNCHANGED <<file, output>>
    /\ UNCHANGED <<inlineVars, codecVars, clientVars, remote, parsed, childPagesInMarkdown, newBlocks,
                   currentBlocks, strategy, anchorBlockID, idx, off, calls>>

ParseFull ==
    /\ pc = "pulled"
    /\ parsed' = parseFrontmatterFull(file)
    /\ pc' = "parsed"
    /\ UNCHANGED <<inlineVars, codecVars, clientVars, op, file, remote, title, pageID,
                   childPagesInMarkdown, newBlocks, currentBlocks, strategy,
                   anchorBlockID, idx, off, calls, err, output>>

ParseID ==
    /\ pc = "pulled"
    /\ parsed' = parseFrontmatter(file)
    /\ pc' = "parsed"
    /\ UNCHANGED <<inlineVars, codecVars, clientVars, op, file, remote, title, pageID,
                   childPagesInMarkdown, newBlocks, currentBlocks, strategy,
                   anchorBlockID, idx, off, calls, err, output>>

NextFrontmatter == PullPage \/ ParseFull \/ ParseID

SpecFrontmatter == InitFrontmatter /\ [][NextFrontmatter]_vars

----------------------------------------------------------------------------
(* sync.go: PushPage and DiffPage *)

MaxBodyLines == 3

MaxRemote == 3

batchSize == 100

S_commentsHeading == <<NL, "#", "#", " ", "C", "o", "m", "m", "e", "n", "t", "s", NL>>

S_filePath == <<"f", ".", "m", "d">>

S_noChanges == <<"N", "o", " ", "c", "h", "a", "n", "g", "e", "s", " ", "d", "e", "t", "e", "c", "t", "e", "d", ".">>

extractCommentsSection(md) ==
    LET k == Index(md, S_commentsHeading)
    IN  IF k = -1 THEN [content |-> md, comments |-> <<>>]
        ELSE LET dividerIdx == LastIndex(Slice(md, 0, k), S_close)
             IN  IF dividerIdx # -1
                 THEN [content |-> TrimSpace(Slice(md, 0, dividerIdx)),
                       comments |-> TrimSpace(From(md, k + 13))]
                 ELSE [content |-> TrimSpace(Slice(md, 0, k)),
                       comments |-> TrimSpace(From(md, k + 13))]

\* The id and the title a marker line carries: what is before and after the
\* first "|" of its inner text (strings.SplitN with n = 2).
MarkerOf(line) ==
    LET inner == TrimSpace(TrimSuffix(TrimPrefix(line, S_marker), S_markerEnd))
        bar == findClosingSingle(inner, 0, "|")
    IN  IF bar = -1 THEN [ID |-> TrimSpace(inner), Title |-> <<>>]
        ELSE [ID |-> TrimSpace(Slice(inner, 0, bar)), Title |-> TrimSpace(From(inner, bar + 1))]

RECURSIVE ChildPageCommentsLoop(_, _, _)
ChildPageCommentsLoop(lines, blockIndex, acc) ==
    IF lines = <<>> THEN acc
    ELSE LET line == Head(lines)
         IN  IF line = <<>> THEN ChildPageCommentsLoop(Tail(lines), blockIndex, acc)
             ELSE IF IsMarkerLine(line)
             THEN ChildPageCommentsLoop(Tail(lines), blockIndex,
                      Append(acc, [ID |-> MarkerOf(line).ID, Title |-> MarkerOf(line).Title,
                                   Position |-> blockIndex]))
             ELSE ChildPageCommentsLoop(Tail(lines), blockIndex + 1, acc)

parseChildPageComments(md) == ChildPageCommentsLoop(splitLines(md), 0, <<>>)

WarningText(pageTitle) ==
    <<"(", "c", "h", "i", "l", "d", " ", "p", "a", "g", "e", " ", "'">> \o pageTitle \o <<"'", " ", "m", "o", "v", "e", "d", " ", "t", "o", " ", "e", "n", "d", " ", "o", "f", " ", "t", "h", "i", "s", " ", "d", "o", "c", ")">>

\* The warning paragraph: italic text (its gray colour is not modelled).
WarningBlock(pageTitle) ==
    Block("paragraph",
          <<Span("text", WarningText(pageTitle), FALSE, TRUE, FALSE, FALSE, <<>>, <<>>)>>)

RECURSIVE WarningsLoop(_, _, _, _, _)
WarningsLoop(lines, bs, warnings, blockIndex, acc) ==
    IF lines = <<>> THEN acc
    ELSE LET line == Head(lines)
         IN  IF line = <<>> THEN WarningsLoop(Tail(lines), bs, warnings, blockIndex, acc)
             ELSE IF IsMarkerLine(line)
             THEN LET hits == {k \in 1..Len(warnings) : warnings[k].ID = MarkerOf(line).ID}
                  IN  WarningsLoop(Tail(lines), bs, warnings, blockIndex,
                          IF hits # {}
                          THEN Append(acc, WarningBlock(warnings[Max(hits)].Title))
                          ELSE acc)
             ELSE WarningsLoop(Tail(lines), bs, warnings, blockIndex + 1,
                      IF blockIndex < Len(bs) THEN Append(acc, bs[blockIndex + 1]) ELSE acc)

markdownToBlocksWithChildPageWarnings(md, warnings) ==
    LET bs == MarkdownToBlocks(md)
    IN  IF Len(warnings) = 0 THEN bs
        ELSE WarningsLoop(splitLines(md), bs, warnings, 0, <<>>)

\* The child_page blocks of the fetched page, with their 0-based positions.
RECURSIVE ChildPagesFrom(_, _)
ChildPagesFrom(bs, k) ==
    IF k > Len(bs) THEN <<>>
    ELSE (IF bs[k].type = "child_page"
          THEN <<[ID |-> bs[k].id, Title |-> bs[k].title, Position |-> k - 1,
                  BlockID |-> bs[k].id]>>
          ELSE <<>>) \o ChildPagesFrom(bs, k + 1)

CurrentChildPages(bs) == ChildPagesFrom(bs, 1)

EdgeCase_contentBeforeOnly(currentChildPages, markers) ==
    IF /\ Len(currentChildPages) > 0 /\ currentChildPages[1].Position = 0
       /\ Len(markers) > 0 /\ markers[1].Position > 0
    THEN [needsFallback |-> TRUE, fallbackWarnings |-> <<markers[1]>>]
    ELSE [needsFallback |-> FALSE, fallbackWarnings |-> <<>>]

\* The edge-case test of PushPage: needsFallback and fallbackWarnings.
EdgeCase(currentChildPages, markers) ==
    IF Len(currentChildPages) > 0 /\ currentChildPages[1].Position = 0
    THEN IF Len(markers) > 0 /\ markers[1].Position > 0
         THEN [needsFallback |-> TRUE, fallbackWarnings |-> <<markers[1]>>]
         ELSE IF Len(markers) = 0
         THEN [needsFallback |-> TRUE, fallbackWarnings |-> <<>>]
         ELSE [needsFallback |-> FALSE, fallbackWarnings |-> <<>>]
    ELSE [needsFallback |-> FALSE, fallbackWarnings |-> <<>>]

S_comments == <<"C", "o", "m", "m", "e", "n", "t", "s">>

\* The blocks PushPage builds: the content, then the preserved comments
\* under a divider and a heading.
PushBlocks(md, preservedComments, fallbackWarnings) ==
    markdownToBlocksWithChildPageWarnings(md, fallbackWarnings)
    \o (IF preservedComments # <<>>
        THEN <<Block("divider", <<>>), Block("heading_2", <<PlainSpan(S_comments)>>)>>
             \o MarkdownToBlocks(preservedComments)
        ELSE <<>>)

AnchorOf_firstBlock(bs) == IF bs = <<>> THEN <<>> ELSE bs[1].id

\* The anchor of pushPagePreservePositions: the id of the first block that is
\* not a child page, empty when there is none.
AnchorOf(bs) ==
    LET at == {k \in 1..Len(bs) : bs[k].type # "child_page"}
    IN  IF at = {} THEN <<>> ELSE bs[Min(at)].id

DeleteTargets_childPagesToo(bs, anchor) ==
    LET kept == SelectSeq(bs, LAMBDA b : b.id # anchor)
    IN  [k \in 1..Len(kept) |-> kept[k].id]

\* Step 2: the blocks to delete, in page order.
DeleteTargets(bs, anchor) ==
    LET kept == SelectSeq(bs, LAMBDA b : b.id # anchor /\ b.type # "child_page")
    IN  [k \in 1..Len(kept) |-> kept[k].id]

\* The block id a marker's section goes after.
AfterIDOf(cp, currentChildPages, anchor) ==
    LET hits == {k \in 1..Len(currentChildPages) :
                    ReplaceAll(currentChildPages[k].ID, "-", <<>>) = ReplaceAll(cp.ID, "-", <<>>)}
    IN  IF hits # {} THEN currentChildPages[Max(hits)].BlockID ELSE anchor

\* Step 3, one iteration of the loop over newBlocks: st holds sections,
\* currentSection, blockIndex and childPageIndex.
SectionsStep(block, markers, currentChildPages, anchor, st) ==
    LET reached == /\ st.childPageIndex < Len(markers)
                   /\ st.blockIndex = markers[st.childPageIndex + 1].Position
        closed == IF reached /\ Len(st.currentSection.blocks) > 0
                  THEN Append(st.sections, st.currentSection) ELSE st.sections
        opened == IF reached
                  THEN [blocks |-> <<>>,
                        afterID |-> AfterIDOf(markers[st.childPageIndex + 1],
                                              currentChildPages, anchor)]
                  ELSE st.currentSection
    IN  [sections |-> closed,
         currentSection |-> [opened EXCEPT !.blocks = Append(@, block)],
         blockIndex |-> st.blockIndex + 1,
         childPageIndex |-> st.childPageIndex + (IF reached THEN 1 ELSE 0)]

\* The iterations over the blocks bs, in order, from the state st.  A run of
\* several blocks is evaluated as its first half followed by its second half,
\* which keeps the evaluation shallow for a long list.
RECURSIVE SectionsLoop(_, _, _, _, _)
SectionsLoop(bs, markers, currentChildPages, anchor, st) ==
    IF bs = <<>> THEN st
    ELSE IF Len(bs) = 1 THEN SectionsStep(bs[1], markers, currentChildPages, anchor, st)
    ELSE LET half == Len(bs) \div 2
         IN  CHOOSE r \in
                 {SectionsLoop(SubSeq(bs, half + 1, Len(bs)), markers, currentChildPages,
                               anchor, mid) :
                     mid \in {SectionsLoop(SubSeq(bs, 1, half), markers, currentChildPages,
                                           anchor, st)}} : TRUE

\* The sections after the loop: the last one is added if it holds a block.
Sections(bs, markers, currentChildPages, anchor) ==
    LET last == SectionsLoop(bs, markers, currentChildPages, anchor,
                    [sections |-> <<>>, currentSection |-> [blocks |-> <<>>, afterID |-> anchor],
                     blockIndex |-> 0, childPageIndex |-> 0])
    IN  IF Len(last.currentSection.blocks) > 0
        THEN Append(last.sections, last.currentSection) ELSE last.sections

DiffText_commonLines(path, id, localMarkdown, notionMarkdown) ==
    LET localLines == Split(TrimSpace(localMarkdown), NL)
        notionLines == Split(TrimSpace(notionMarkdown), NL)
        minLines == IF Len(notionLines) < Len(localLines)
                    THEN Len(notionLines) ELSE Len(localLines)
    IN  IF \A k \in 1..minLines : localLines[k] = notionLines[k] THEN S_noChanges
        ELSE <<"C", "o", "m", "p", "a", "r", "i", "n", "g", " ">> \o path

\* The line-by-line comparison of DiffPage.
DiffText(path, id, localMarkdown, notionMarkdown) ==
    LET localLines == Split(TrimSpace(localMarkdown), NL)
        notionLines == Split(TrimSpace(notionMarkdown), NL)
        maxLines == IF Len(notionLines) > Len(localLines)
                    THEN Len(notionLines) ELSE Len(localLines)
        local(k) == IF k <= Len(localLines) THEN localLines[k] ELSE <<>>
        notion(k) == IF k <= Len(notionLines) THEN notionLines[k] ELSE <<>>
        hasChanges == \E k \in 1..maxLines : local(k) # notion(k)
        entry(k) == IF local(k) = notion(k) THEN <<>>
                    ELSE (IF notion(k) # <<>> THEN <<"-", " ">> \o notion(k) \o <<NL>> ELSE <<>>)
                         \o (IF local(k) # <<>> THEN <<"+", " ">> \o local(k) \o <<NL>> ELSE <<>>)
    IN  IF ~hasChanges THEN S_noChanges
        ELSE <<"C", "o", "m", "p", "a", "r", "i", "n", "g", " ">> \o path \o <<" ", "a", "g", "a", "i", "n", "s", "t", " ", "N", "o", "t", "i", "o", "n", " ", "p", "a", "g", "e", " ">> \o id \o <<NL, NL>>
             \o Flatten([k \in 1..maxLines |-> entry(k)])

BatchEnd_dropLast(o, n) == IF o + batchSize > n THEN n - 1 ELSE o + batchSize

\* The end of the batch that starts at offset o in a list of n blocks.
BatchEnd(o, n) == IF o + batchSize > n THEN n ELSE o + batchSize

\* One remote call: what was asked and whether the API answered without error.
Call(kind, target, bs, after, ok) ==
    [kind |-> kind, target |-> target, blocks |-> bs, after |-> after, ok |-> ok]

----------------------------------------------------------------------------
(* Specification SpecPush: PushPage or DiffPage is called on a file with a *)
(* body of at most MaxBodyLines lines, for a page of at most MaxRemote     *)
(* blocks.  Every remote call is one step and may fail.  The blocks of the *)
(* page have no children, so fetchAllBlocks is a single call.              *)

MarkerA == <<"<", "!", "-", "-", " ", "c", "h", "i", "l", "d", "_", "p", "a", "g", "e", ":", " ", "A", " ", "|", " ", "t", "a", " ", "-", "-", ">">>

MarkerB == <<"<", "!", "-", "-", " ", "c", "h", "i", "l", "d", "_", "p", "a", "g", "e", ":", " ", "B", " ", "|", " ", "t", "b", " ", "-", "-", ">">>

BodyLines == { Str_a, MarkerA, MarkerB }

JoinLines(ls) == Join(ls, <<NL>>)

PushBodies ==
    {JoinLines(ls) : ls \in SeqsUpTo(BodyLines, MaxBodyLines)}
    \cup {JoinLines(ls) \o CommentsMarkdown(c) :
             ls \in SeqsUpTo(BodyLines, 1), c \in PullComments \ {<<>>}}

\* Headers from which parseFrontmatter gets no page id: none, one that is
\* not closed, one without a notion_id line, one with an empty notion_id.
BadHeaders ==
    { <<>>, <<"-", "-", "-", NL, "n", "o", "t", "i", "o", "n", "_", "i", "d", ":", " ", "p", NL>>, <<"-", "-", "-", NL, "t", "i", "t", "l", "e", ":", " ", "t", NL, "-", "-", "-", NL, NL>>, <<"-", "-", "-", NL, "n", "o", "t", "i", "o", "n", "_", "i", "d", ":", " ", NL, "-", "-", "-", NL, NL>> }

PushFiles ==
    {Frontmatter(<<"p">>, <<"t">>, <<>>) \o b : b \in PushBodies}
    \cup {h \o JoinLines(ls) : h \in BadHeaders, ls \in SeqsUpTo(BodyLines, 1)}

RemoteBlocks ==
    { [APIBlock("child_page", <<>>) EXCEPT !.id = <<"A">>, !.title = <<"t", "a">>],
      [APIBlock("child_page", <<>>) EXCEPT !.id = <<"B">>, !.title = <<"t", "b">>],
      [APIBlock("paragraph", <<PlainSpan(Str_a)>>) EXCEPT !.id = <<"x">>],
      [APIBlock("paragraph", <<PlainSpan(<<"y">>)>>) EXCEPT !.id = <<"y">>] }

\* Pages: block lists in which no block id occurs twice.
Remotes ==
    {bs \in SeqsUpTo(RemoteBlocks, MaxRemote) :
        \A j, k \in 1..Len(bs) : j # k => bs[j].id # bs[k].id}

InitPush ==
    /\ InlineIdle /\ CodecIdle /\ ClientIdle
    /\ pc = "start"
    /\ op = ""
    /\ file \in PushFiles
    /\ remote \in Remotes
    /\ title = <<>> /\ pageID = <<>>
    /\ parsed = NoParse /\ childPagesInMarkdown = <<>> /\ newBlocks = <<>>
    /\ currentBlocks = <<>> /\ strategy = "" /\ anchorBlockID = <<>>
    /\ idx = 0 /\ off = 0 /\ calls = <<>> /\ err = "" /\ output = <<>>

\* The page content of the file, without the comments section.
FileMarkdown == extractCommentsSection(parseFrontmatter(file).markdown)

PushSections ==
    Sections(newBlocks, childPagesInMarkdown, CurrentChildPages(currentBlocks), anchorBlockID)

PushDeleteTargets == DeleteTargets(currentBlocks, anchorBlockID)

\* pushPageSimple: the child page ids to restore.
RestoreIDs ==
    LET ccp == CurrentChildPages(currentBlocks) IN [k \in 1..Len(ccp) |-> ccp[k].ID]

\* PushPage up to its first remote call.
PushStart ==
    /\ pc = "start"
    /\ op' = "push"
    /\ \E readOK \in BOOLEAN :
          IF ~readOK
          THEN /\ err' = "failed to read file"
               /\ pc' = "done"
               /\ UNCHANGED <<pageID, childPagesInMarkdown>>
          ELSE IF parseFrontmatter(file).pageID = <<>>
          THEN /\ err' = "no notion_id found in frontmatter"
               /\ pc' = "done"
               /\ UNCHANGED <<pageID, childPagesInMarkdown>>
          ELSE /\ pageID' = parseFrontmatter(file).pageID
               /\ childPagesInMarkdown' = parseChildPageComments(FileMarkdown.content)
               /\ pc' = "fetch"
               /\ err' = ""
    /\ UNCHANGED <<inlineVars, codecVars, clientVars, file, remote, title, parsed, newBlocks,
                   currentBlocks, strategy, anchorBlockID, idx, off, calls, output>>

\* fetchAllBlocks, then the choice of the strategy and the blocks to push.
PushFetch ==
    /\ pc = "fetch"
    /\ op = "push"
    /\ \E ok \in BOOLEAN :
          /\ calls' = Append(calls, Call("fetch", pageID, <<>>, <<>>, ok))
          /\ IF ~ok
             THEN /\ err' = "failed to fetch current blocks"
                  /\ pc' = "done"
                  /\ UNCHANGED <<newBlocks, currentBlocks, strategy, anchorBlockID>>
             ELSE LET currentChildPages == CurrentChildPages(remote)
                      edge == EdgeCase(currentChildPages, childPagesInMarkdown)
                      simple == edge.needsFallback \/ Len(currentChildPages) = 0
                      anchor == AnchorOf(remote)
                  IN  /\ currentBlocks' = remote
                      /\ newBlocks' = PushBlocks(FileMarkdown.content, FileMarkdown.comments,
                                                 edge.fallbackWarnings)
                      /\ strategy' = IF simple THEN "simple"
                                     ELSE IF anchor = <<>> THEN "fallback" ELSE "preserve"
                      /\ anchorBlockID' = IF simple THEN <<>> ELSE anchor
                      /\ pc' = IF ~simple /\ anchor # <<>> THEN "update" ELSE "erase"
                      /\ err' = ""
    /\ UNCHANGED <<inlineVars, codecVars, clientVars, op, file, remote, title, pageID, parsed,
                   childPagesInMarkdown, idx, off, output>>

AfterAppend_skipRestore == "done"

\* Where pushPageSimple continues once the blocks are appended.
AfterAppend == IF Len(RestoreIDs) > 0 THEN "restore" ELSE "done"

\* pushPageSimple: erasePage.
Erase ==
    /\ pc = "erase"
    /\ \E ok \in BOOLEAN :
          /\ calls' = Append(calls, Call("erase", pageID, <<>>, <<>>, ok))
          /\ IF ~ok
             THEN err' = "failed to erase page" /\ pc' = "done"
             ELSE err' = "" /\ pc' = IF Len(newBlocks) > 0 THEN "append" ELSE AfterAppend
    /\ idx' = 0
    /\ off' = 0
    /\ UNCHANGED <<inlineVars, codecVars, clientVars, op, file, remote, title, pageID, parsed,
                   childPagesInMarkdown, newBlocks, currentBlocks, strategy,
                   anchorBlockID, output>>

AppendBatch_continueOnError ==
    /\ pc = "append"
    /\ \E ok \in BOOLEAN :
          /\ calls' = Append(calls, Call("append", pageID,
                                         SubSeq(newBlocks, off + 1,
                                                BatchEnd(off, Len(newBlocks))), <<>>, ok))
          /\ err' = IF ok THEN "" ELSE "failed to append blocks"
          /\ off' = off + batchSize
          /\ pc' = IF off + batchSize < Len(newBlocks) THEN "append" ELSE AfterAppend
    /\ UNCHANGED <<inlineVars, codecVars, clientVars, op, file, remote, title, pageID, parsed,
                   childPagesInMarkdown, newBlocks, currentBlocks, strategy,
                   anchorBlockID, idx, output>>

\* appendBlocksBatched: one batch.
AppendBatch ==
    /\ pc = "append"
    /\ \E ok \in BOOLEAN :
          LET end == BatchEnd(off, Len(newBlocks))
          IN  /\ calls' = Append(calls, Call("append", pageID,
                                             SubSeq(newBlocks, off + 1, end), <<>>, ok))
              /\ IF ~ok
                 THEN err' = "failed to append blocks" /\ pc' = "done" /\ off' = off
                 ELSE /\ err' = ""
                      /\ off' = off + batchSize
                      /\ pc' = IF off + batchSize < Len(newBlocks) THEN "append"
                               ELSE AfterAppend
    /\ UNCHANGED <<inlineVars, codecVars, clientVars, op, file, remote, title, pageID, parsed,
                   childPagesInMarkdown, newBlocks, currentBlocks, strategy,
                   anchorBlockID, idx, output>>

\* restorePages: one page.
Restore ==
    /\ pc = "restore"
    /\ \E ok \in BOOLEAN :
          /\ calls' = Append(calls, Call("restore", RestoreIDs[idx + 1], <<>>, <<>>, ok))
          /\ IF ~ok
             THEN err' = "failed to restore child pages" /\ pc' = "done" /\ idx' = idx
             ELSE /\ err' = ""
                  /\ idx' = idx + 1
                  /\ pc' = IF idx + 1 < Len(RestoreIDs) THEN "restore" ELSE "done"
    /\ UNCHANGED <<inlineVars, codecVars, clientVars, op, file, remote, title, pageID, parsed,
                   childPagesInMarkdown, newBlocks, currentBlocks, strategy,
                   anchorBlockID, off, output>>

AfterDelete_skipInsert == "delanchor"

\* Where pushPagePreservePositions continues once the old blocks are deleted.
AfterDelete == IF Len(PushSections) > 0 THEN "insert" ELSE "delanchor"

\* Step 1: updateBlockToEmptyParagraph on the anchor.
UpdateAnchor ==
    /\ pc = "update"
    /\ \E ok \in BOOLEAN :
          /\ calls' = Append(calls, Call("update", anchorBlockID, <<>>, <<>>, ok))
          /\ IF ~ok
             THEN err' = "failed to update anchor" /\ pc' = "done"
             ELSE err' = "" /\ pc' = IF Len(PushDeleteTargets) > 0 THEN "delete"
                                     ELSE AfterDelete
    /\ idx' = 0
    /\ off' = 0
    /\ UNCHANGED <<inlineVars, codecVars, clientVars, op, file, remote, title, pageID, parsed,
                   childPagesInMarkdown, newBlocks, currentBlocks, strategy,
                   anchorBlockID, output>>

\* Step 2: deleteBlock on one block; an error is logged and ignored.
DeleteBlock ==
    /\ pc = "delete"
    /\ \E ok \in BOOLEAN :
          calls' = Append(calls, Call("delete", PushDeleteTargets[idx + 1], <<>>, <<>>, ok))
    /\ IF idx + 1 < Len(PushDeleteTargets)
       THEN idx' = idx + 1 /\ pc' = "delete"
       ELSE idx' = 0 /\ pc' = AfterDelete
    /\ UNCHANGED <<inlineVars, codecVars, clientVars, op, file, remote, title, pageID, parsed,
                   childPagesInMarkdown, newBlocks, currentBlocks, strategy,
                   anchorBlockID, off, err, output>>

\* Step 4: appendBlocksAfter, one batch of one section.
InsertBatch ==
    /\ pc = "insert"
    /\ \E ok \in BOOLEAN :
          LET sec == PushSections[idx + 1]
              end == BatchEnd(off, Len(sec.blocks))
          IN  /\ calls' = Append(calls, Call("after", pageID, SubSeq(sec.blocks, off + 1, end),
                                             sec.afterID, ok))
              /\ IF ~ok
                 THEN /\ err' = "failed to insert section"
                      /\ pc' = "done"
                      /\ UNCHANGED <<idx, off>>
                 ELSE /\ err' = ""
                      /\ IF off + batchSize < Len(sec.blocks)
                         THEN off' = off + batchSize /\ idx' = idx /\ pc' = "insert"
                         ELSE /\ off' = 0
                              /\ idx' = idx + 1
                              /\ pc' = IF idx + 1 < Len(PushSections) THEN "insert"
                                       ELSE "delanchor"
    /\ UNCHANGED <<inlineVars, codecVars, clientVars, op, file, remote, title, pageID, parsed,
                   childPagesInMarkdown, newBlocks, currentBlocks, strategy,
                   anchorBlockID, output>>

\* Step 5: deleteBlock on the anchor; an error is logged and ignored.
DeleteAnchor ==
    /\ pc = "delanchor"
    /\ \E ok \in BOOLEAN :
          calls' = Append(calls, Call("delete", anchorBlockID, <<>>, <<>>, ok))
    /\ pc' = "done"
    /\ UNCHANGED <<inlineVars, codecVars, clientVars, op, file, remote, title, pageID, parsed,
                   childPagesInMarkdown, newBlocks, currentBlocks, strategy,
                   anchorBlockID, idx, off, err, output>>

\* DiffPage up to its remote call.
DiffStart ==
    /\ pc = "start"
    /\ op' = "diff"
    /\ \E readOK \in BOOLEAN :
          IF ~readOK
          THEN err' = "failed to read file" /\ pc' = "done" /\ UNCHANGED pageID
          ELSE IF parseFrontmatter(file).pageID = <<>>
          THEN /\ err' = "no notion_id found in frontmatter"
               /\ pc' = "done"
               /\ UNCHANGED pageID
          ELSE /\ pageID' = parseFrontmatter(file).pageID
               /\ pc' = "fetch"
               /\ err' = ""
    /\ UNCHANGED <<inlineVars, codecVars, clientVars, file, remote, title, parsed, childPagesInMarkdown,
                   newBlocks, currentBlocks, strategy, anchorBlockID, idx, off, calls,
                   output>>

\* fetchAllBlocks, then the comparison.
DiffFetch ==
    /\ pc = "fetch"
    /\ op = "diff"
    /\ \E ok \in BOOLEAN :
          /\ calls' = Append(calls, Call("fetch", pageID, <<>>, <<>>, ok))
          /\ IF ~ok
             THEN err' = "failed to fetch blocks" /\ UNCHANGED <<currentBlocks, output>>
             ELSE /\ err' = ""
                  /\ currentBlocks' = remote
                  /\ output' = DiffText(S_filePath, pageID, parseFrontmatter(file).markdown,
                                        BlocksToMarkdown(remote))
    /\ pc' = "done"
    /\ UNCHANGED <<inlineVars, codecVars, clientVars, op, file, remote, title, pageID, parsed,
                   childPagesInMarkdown, newBlocks, strategy, anchorBlockID, idx, off>>

NextPush ==
    \/ PushStart \/ PushFetch \/ Erase \/ AppendBatch \/ Restore
    \/ UpdateAnchor \/ DeleteBlock \/ InsertBatch \/ DeleteAnchor
    \/ DiffStart \/ DiffFetch

SpecPush == InitPush /\ [][NextPush]_vars

----------------------------------------------------------------------------
(* The page as the remote calls leave it.  A call that the API answered    *)
(* with an error changes nothing.  erase_content empties the page and      *)
(* moves its child pages to the trash; un-archiving a child page puts it   *)
(* back at the bottom; children sent with "after" are placed directly      *)
(* after the block of that id, children sent without it at the end.        *)

ApplyCall(page, original, c) ==
    IF ~c.ok THEN page
    ELSE IF c.kind = "erase" THEN <<>>
    ELSE IF c.kind = "append" THEN page \o c.blocks
    ELSE IF c.kind = "restore"
    THEN page \o SelectSeq(original, LAMBDA b : b.type = "child_page" /\ b.id = c.target)
    ELSE IF c.kind = "update"
    THEN [k \in 1..Len(page) |->
             IF page[k].id = c.target
             THEN [APIBlock("paragraph", <<>>) EXCEPT !.id = c.target] ELSE page[k]]
    ELSE IF c.kind = "delete" THEN SelectSeq(page, LAMBDA b : b.id # c.target)
    ELSE IF c.kind = "after"
    THEN LET at == {k \in 1..Len(page) : page[k].id = c.after}
         IN  IF at = {} THEN page \o c.blocks
             ELSE SubSeq(page, 1, Min(at)) \o c.blocks \o SubSeq(page, Min(at) + 1, Len(page))
    ELSE page

RECURSIVE PageAfter(_, _, _)
PageAfter(page, original, cs) ==
    IF cs = <<>> THEN page
    ELSE CHOOSE r \in {PageAfter(p, original, Tail(cs)) :
                          p \in {ApplyCall(page, original, Head(cs))}} : TRUE

----------------------------------------------------------------------------
(* Specification SpecBulk: pushPageSimple or pushPagePreservePositions is  *)
(* called with a list of at most MaxBulkBlocks paragraphs, numbered in     *)
(* order, for a page of at most MaxBulkRemote blocks, with no marker or     *)
(* with one marker after the first block; which of the two is called is    *)
(* decided as PushPage decides it.  The list lengths are those next to a   *)
(* multiple of the batch size, where the number of batches changes.        *)

MaxBulkBlocks == 201

MaxBulkRemote == 3

BulkBlocks(n) == [k \in 1..n |-> Block("paragraph", <<PlainSpan(Digits(k))>>)]

BulkSizes == {n \in 0..MaxBulkBlocks : n % batchSize \in {0, 1, 2, batchSize - 1}}

InitBulk ==
    /\ InlineIdle /\ CodecIdle /\ ClientIdle
    /\ op = "push"
    /\ file = <<>> /\ title = <<>> /\ parsed = NoParse /\ output = <<>>
    /\ pageID = <<"p">>
    /\ remote \in {bs \in Remotes : Len(bs) <= MaxBulkRemote}
    /\ currentBlocks = remote
    /\ newBlocks \in {BulkBlocks(n) : n \in BulkSizes}
    /\ childPagesInMarkdown \in {<<>>} \cup
           (IF Len(newBlocks) > 1
            THEN {<<[ID |-> <<"A">>, Title |-> <<"t", "a">>, Position |-> 1]>>} ELSE {})
    /\ strategy = IF \/ Len(CurrentChildPages(remote)) = 0
                     \/ EdgeCase(CurrentChildPages(remote), childPagesInMarkdown).needsFallback
                  THEN "simple"
                  ELSE IF AnchorOf(remote) = <<>> THEN "fallback" ELSE "preserve"
    /\ anchorBlockID = IF strategy = "preserve" THEN AnchorOf(remote) ELSE <<>>
    /\ pc = IF strategy = "preserve" THEN "update" ELSE "erase"
    /\ idx = 0 /\ off = 0 /\ calls = <<>> /\ err = ""

NextBulk ==
    \/ Erase \/ AppendBatch \/ Restore
    \/ UpdateAnchor \/ DeleteBlock \/ InsertBatch \/ DeleteAnchor

SpecBulk == InitBulk /\ [][NextBulk]_vars

----------------------------------------------------------------------------
(* Specification SpecNames: resolveUserName is called any number of times  *)
(* on one Client, for user ids of UserIDs.  The cache is a map, modelled   *)
(* as a function from the ids it holds.  Every GET /users/{id} is one      *)
(* entry of calls, with the response the API gave.                         *)

S_unknown == <<"U", "n", "k", "n", "o", "w", "n">>

UserIDs == { <<"u">>, <<"v">>, <<"w">> }

\* What doRequest and json.Unmarshal can give for GET /users/{id}: an
\* error, a body that is not JSON for the struct, or a user object whose
\* name may be empty (a missing "name" decodes as the empty string).
UserResponses ==
    { [err |-> TRUE, parses |-> FALSE, name |-> <<>>],
      [err |-> FALSE, parses |-> FALSE, name |-> <<>>] }
    \cup { [err |-> FALSE, parses |-> TRUE, name |-> n] : n \in { <<>>, <<"n">>, <<"m">>, S_unknown } }

UserCall(id, resp) == [kind |-> "user", target |-> id, resp |-> resp]

CacheHas(cache, id) == id \in DOMAIN cache

\* c.userCache[userID] = name
CachePut(cache, id, name) == [k \in DOMAIN cache \cup {id} |-> IF k = id THEN name ELSE cache[k]]

\* The name resolveUserName takes from the response of the lookup.
NameOf(resp) ==
    IF resp.err THEN S_unknown
    ELSE IF ~resp.parses THEN S_unknown
    ELSE IF resp.name = <<>> THEN S_unknown
    ELSE resp.name

StoreName_notOnFailure(cache, id, resp) ==
    IF resp.err \/ ~resp.parses THEN cache ELSE CachePut(cache, id, NameOf(resp))

\* The cache after the lookup: every branch stores what it returns.
StoreName(cache, id, resp) == CachePut(cache, id, NameOf(resp))

InitNames ==
    /\ InlineIdle /\ CodecIdle
    /\ pc = "idle"
    /\ op = "" /\ file = <<>> /\ remote = <<>> /\ title = <<>> /\ pageID = <<>>
    /\ parsed = NoParse /\ childPagesInMarkdown = <<>> /\ newBlocks = <<>>
    /\ currentBlocks = <<>> /\ strategy = "" /\ anchorBlockID = <<>>
    /\ idx = 0 /\ off = 0 /\ calls = <<>> /\ err = "" /\ output = <<>>
    /\ ClientIdle

\* resolveUserName(id) when the cache holds id: the cached name is returned.
ResolveCached ==
    /\ \E id \in UserIDs :
          /\ CacheHas(userCache, id)
          /\ userID' = id
          /\ output' = userCache[id]
    /\ op' = "resolveUserName"
    /\ UNCHANGED <<pc, inlineVars, codecVars, file, remote, title, pageID, parsed,
                   childPagesInMarkdown, newBlocks, currentBlocks, strategy,
                   anchorBlockID, idx, off, calls, err, userCache>>

\* resolveUserName(id) when the cache does not hold id: one lookup.
ResolveLookup ==
    /\ Len(calls) < MaxLookups
    /\ \E id \in UserIDs, resp \in UserResponses :
          /\ ~CacheHas(userCache, id)
          /\ userID' = id
          /\ calls' = Append(calls, UserCall(id, resp))
          /\ userCache' = StoreName(userCache, id, resp)
          /\ output' = NameOf(resp)
    /\ op' = "resolveUserName"
    /\ UNCHANGED <<pc, inlineVars, codecVars, file, remote, title, pageID, parsed,
                   childPagesInMarkdown, newBlocks, currentBlocks, strategy,
                   anchorBlockID, idx, off, err>>

NextNames == ResolveCached \/ ResolveLookup

SpecNames == InitNames /\ [][NextNames]_vars

----------------------------------------------------------------------------
(* Specification SpecFetch: fetchAllBlocks is called for a page whose      *)
(* block tree has at most MaxFetchBlocks top-level blocks and depth 3.     *)
(* remote is the tree as Notion holds it, the children of a block in its   *)
(* children field.  The API lists the children of one block per request,   *)
(* each listed without its own children (has_children says whether it has  *)
(* any), in pages of at most page_size blocks, the length of each page     *)
(* chosen by the server.  Every GET is one entry of calls.                 *)

MaxFetchBlocks == 3

page_size == 100

\* A block as a children listing returns it.
Listed(b) == [b EXCEPT !.children = <<>>]

ListedAll(bs) == [k \in 1..Len(bs) |-> Listed(bs[k])]

has_children(b) == Len(b.children) > 0

Leaf(id) == [APIBlock("paragraph", <<PlainSpan(Str_a)>>) EXCEPT !.id = <<id>>]

Item(id, children) ==
    [APIBlock("bulleted_list_item", <<PlainSpan(Str_a)>>) EXCEPT !.id = <<id>>, !.children = children]

FetchBlocks ==
    { Leaf("x"),
      Item("p", <<Leaf("c"), Leaf("d")>>),
      Item("q", <<Item("e", <<Leaf("g")>>)>>) }

FetchTrees ==
    {bs \in SeqsUpTo(FetchBlocks, MaxFetchBlocks) :
        \A j, k \in 1..Len(bs) : j # k => bs[j].id # bs[k].id}

\* start_cursor of the request for the blocks from position o on.
Cursor(o) == IF o = 0 THEN <<>> ELSE Digits(o)

\* The requests of one fetchBlockChildren(id) over n children served in
\* pages of len blocks: all of them, or those up to the one that fails.
ChildRequests(id, n, len, failAt) ==
    LET count == IF n = 0 THEN 1 ELSE (n + len - 1) \div len
        sent == IF failAt = 0 THEN count ELSE Min({failAt, count})
    IN  [j \in 1..sent |-> Call("children", id, <<>>, Cursor((j - 1) * len), j # failAt)]

\* What fetchBlockChildren returns when no request fails: the immediate
\* children, as listed.
fetchBlockChildren(b) == ListedAll(b.children)

\* The block fetchAllBlocks keeps for a listed block lb of the tree block b:
\* the children are attached if they were fetched and there is one.
Attach(lb, b, fetched) ==
    IF lb.id = <<>> \/ ~has_children(b) \/ ~fetched \/ Len(fetchBlockChildren(b)) = 0
    THEN lb
    ELSE [lb EXCEPT !.children = fetchBlockChildren(b)]

InitFetch ==
    /\ InlineIdle /\ CodecIdle /\ ClientIdle
    /\ pc = "page"
    /\ op = "fetchAllBlocks"
    /\ file = <<>> /\ title = <<>> /\ parsed = NoParse /\ output = <<>>
    /\ pageID = <<"p">>
    /\ remote \in FetchTrees
    /\ childPagesInMarkdown = <<>> /\ strategy = "" /\ anchorBlockID = <<>>
    /\ newBlocks = <<>> /\ currentBlocks = <<>>
    /\ idx = 0 /\ off = 0 /\ calls = <<>> /\ err = ""

\* One request of the outer loop: the page of results that starts at the
\* cursor.  A request error ends fetchAllBlocks with nil and the error.
FetchPage ==
    /\ pc = "page"
    /\ \E ok \in BOOLEAN, len \in 0..Min({page_size, Len(remote) - off}) :
          /\ (len = 0) <=> (off = Len(remote))
          /\ calls' = Append(calls, Call("children", pageID, <<>>, Cursor(off), ok))
          /\ IF ~ok
             THEN /\ err' = "request failed"
                  /\ pc' = "done"
                  /\ currentBlocks' = <<>>
                  /\ UNCHANGED newBlocks
             ELSE /\ newBlocks' = ListedAll(SubSeq(remote, off + 1, off + len))
                  /\ pc' = "results"
                  /\ UNCHANGED <<err, currentBlocks>>
    /\ idx' = 0
    /\ UNCHANGED <<inlineVars, codecVars, clientVars, op, file, remote, title, pageID, parsed,
                   childPagesInMarkdown, strategy, anchorBlockID, off, output>>

\* One iteration of the loop over result.Results: a block with
\* has_children gets the result of fetchBlockChildren, whose error is
\* dropped.
FetchResult ==
    /\ pc = "results"
    /\ idx < Len(newBlocks)
    /\ LET lb == newBlocks[idx + 1]
           b == remote[off + idx + 1]
       IN  IF lb.id # <<>> /\ has_children(b)
           THEN \E len \in 1..Min({page_size, Len(b.children)}), failAt \in 0..Len(b.children) :
                   /\ calls' = calls \o ChildRequests(lb.id, Len(b.children), len, failAt)
                   /\ newBlocks' = [newBlocks EXCEPT ![idx + 1] =
                                       Attach(lb, b, \A c \in 1..Len(calls') : c > Len(calls) => calls'[c].ok)]
           ELSE UNCHANGED <<calls, newBlocks>>
    /\ idx' = idx + 1
    /\ UNCHANGED <<pc, inlineVars, codecVars, clientVars, op, file, remote, title, pageID, parsed,
                   childPagesInMarkdown, currentBlocks, strategy, anchorBlockID, off, err,
                   output>>

\* The end of one round of the outer loop: the results are appended and
\* the loop goes on while has_more is true.
FetchNext ==
    /\ pc = "results"
    /\ idx = Len(newBlocks)
    /\ currentBlocks' = currentBlocks \o newBlocks
    /\ off' = off + Len(newBlocks)
    /\ pc' = IF off' < Len(remote) THEN "page" ELSE "done"
    /\ UNCHANGED <<inlineVars, codecVars, clientVars, op, file, remote, title, pageID, parsed,
                   childPagesInMarkdown, newBlocks, strategy, anchorBlockID, idx, calls, err,
                   output>>

NextFetch == FetchPage \/ FetchResult \/ FetchNext

SpecFetch == InitFetch /\ [][NextFetch]_vars

----------------------------------------------------------------------------
(* Specification SpecComments: a file with the header PullPage writes and  *)
(* a body of at most MaxSectionLines lines is split as PushPage does it,   *)
(* parseFrontmatter and then extractCommentsSection.                       *)

MaxSectionLines == 5

S_commentsLine == <<"#", "#", " ", "C", "o", "m", "m", "e", "n", "t", "s">>

SectionLines == { <<>>, Str_a, <<"b">>, S_divider, S_commentsLine }

SectionFiles ==
    {Frontmatter(<<"p">>, <<"t">>, <<>>) \o LinesToText(ls) :
        ls \in SeqsUpTo(SectionLines, MaxSectionLines)}

InitComments ==
    /\ InlineIdle /\ CodecIdle /\ ClientIdle
    /\ pc = "file"
    /\ op = ""
    /\ file \in SectionFiles
    /\ remote = <<>> /\ title = <<>> /\ pageID = <<>>
    /\ parsed = NoParse /\ childPagesInMarkdown = <<>> /\ newBlocks = <<>>
    /\ currentBlocks = <<>> /\ strategy = "" /\ anchorBlockID = <<>>
    /\ idx = 0 /\ off = 0 /\ calls = <<>> /\ err = "" /\ output = <<>>

\* PushPage: pageID, markdown := parseFrontmatter(...), then
\* markdown, preservedComments = extractCommentsSection(markdown).
ExtractComments ==
    /\ pc = "file"
    /\ op' = "extractCommentsSection"
    /\ pageID' = parseFrontmatter(file).pageID
    /\ parsed' = extractCommentsSection(parseFrontmatter(file).markdown)
    /\ pc' = "split"
    /\ UNCHANGED <<inlineVars, codecVars, clientVars, file, remote, title,
                   childPagesInMarkdown, newBlocks, currentBlocks, strategy, anchorBlockID,
                   idx, off, calls, err, output>>

NextComments == ExtractComments

SpecComments == InitComments /\ [][NextComments]_vars

----------------------------------------------------------------------------
(* Specification SpecPrepare: the first part of PushPage, up to the block  *)
(* list it hands to a push strategy, on files whose body has at most       *)
(* MaxPrepLines lines, among them fence lines (blocks of several lines),   *)
(* checkbox lines and a marker of child page A.  The page has child page   *)
(* A first or second, so that the edge case happens.                       *)

MaxPrepLines == 4

PrepLines ==
    { Str_a,
      S_fence,
      MarkerA,
      <<"-", " ", "[", "x", "]", " ", "a">>,
      <<"-", " ", "[", " ", "]", " ", "a">>,
      <<"-", " ", "[", "x", "]", "a">> }

PrepFiles ==
    {Frontmatter(<<"p">>, <<"t">>, <<>>) \o JoinLines(ls) :
        ls \in SeqsUpTo(PrepLines, MaxPrepLines)}

PrepRemotes == {bs \in Remotes : Len(bs) = 2 /\ \A k \in 1..2 : bs[k].id \in {<<"A">>, <<"x">>}}

InitPrepare ==
    /\ InlineIdle /\ CodecIdle /\ ClientIdle
    /\ pc = "start"
    /\ op = ""
    /\ file \in PrepFiles
    /\ remote \in PrepRemotes
    /\ title = <<>> /\ pageID = <<>>
    /\ parsed = NoParse /\ childPagesInMarkdown = <<>> /\ newBlocks = <<>>
    /\ currentBlocks = <<>> /\ strategy = "" /\ anchorBlockID = <<>>
    /\ idx = 0 /\ off = 0 /\ calls = <<>> /\ err = "" /\ output = <<>>

NextPrepare == PushStart \/ PushFetch

SpecPrepare == InitPrepare /\ [][NextPrepare]_vars

----------------------------------------------------------------------------
(* Claims about the codec *)

IsNumbered(b) == b.type = "numbered_list_item"

\* Two block lists with the same block types and the same text, annotations
\* and per-type content, whatever Go types hold them.
SameContent(bs1, bs2) == JSONRoundTrip(bs1) = JSONRoundTrip(bs2)

\* C1 (as claimed): for blocks = MarkdownToBlocks(text), decoding the markdown
\* that BlocksToMarkdown(blocks) returns gives the same block types and the
\* same text and annotations as blocks.
C1_RoundTrip ==
    (pc \in {"redecoded", "reencoded"} /\ origin = "markdown") => SameContent(blocks, blocks2)

\* C2 (as claimed): for every block list, encoding, decoding and encoding
\* again gives the string the first encoding gave.
C2_Idempotent == pc = "reencoded" => rendered2 = rendered

\* The bytes of the input a span stands for, given the title a mention had.
SpanSource(sp, mentionTitle) ==
    IF sp.kind = "mention"
    THEN <<"[", "@">> \o mentionTitle \o <<"]", "(">> \o S_notion \o sp.page \o <<")">>
    ELSE IF sp.hasLink THEN <<"[">> \o sp.content \o <<"]", "(">> \o sp.url \o <<")">>
    ELSE IF sp.bold THEN <<"*", "*">> \o sp.content \o <<"*", "*">>
    ELSE IF sp.italic THEN <<"*">> \o sp.content \o <<"*">>
    ELSE IF sp.code THEN <<BT>> \o sp.content \o <<BT>>
    ELSE sp.content

\* spans stand for s from position p on: s is the concatenation of the
\* spans' sources, a mention standing for "[@" title "](notion://" id ")"
\* with whatever title the input had there.
RECURSIVE Accounts(_, _, _)
Accounts(s, p, spans) ==
    IF spans = <<>> THEN p = Len(s)
    ELSE \E t \in 0..(IF Head(spans).kind = "mention" THEN Len(s) - p ELSE 0) :
            /\ p + 2 + t <= Len(s) \/ t = 0
            /\ LET src == SpanSource(Head(spans), IF t = 0 THEN <<>> ELSE Slice(s, p + 2, p + 2 + t))
               IN  /\ p + Len(src) <= Len(s)
                   /\ Slice(s, p, p + Len(src)) = src
                   /\ Accounts(s, p + Len(src), Tail(spans))

\* The opening marker at position k has no close anywhere after it.
Unclosed(s, k) ==
    LET n == Len(s)
        after(c, from) == {j \in from..(n - 1) : At(s, j) = c}
    IN  IF At(s, k) = "*"
        THEN IF k + 1 < n /\ At(s, k + 1) = "*"
             THEN {j \in after("*", k + 2) : j + 1 < n /\ At(s, j + 1) = "*"} = {}
             ELSE after("*", k + 1) = {}
        ELSE IF At(s, k) = BT THEN after(BT, k + 1) = {}
        ELSE IF At(s, k) = "["
        THEN {j \in after("]", k + 1) :
                 j + 1 < n /\ At(s, j + 1) = "(" /\ after(")", j + 2) # {}} = {}
        ELSE FALSE

\* C3 (amended): parseInlineMarkdown terminates, every loop iteration moving
\* the scan position forward and never past the end; an opening marker with no
\* close after it becomes a one-character plain-text span; and the input is
\* exactly the concatenation of what the returned spans stand for (content,
\* link URL, mention page id and formatting markers), except that the title
\* text of a page mention is kept in no span.
C3_Totality ==
    /\ [](i \in 0..Len(text) /\ (pc = "returned" => Accounts(text, 0, result)))
    /\ [][pc' = "scan" => i' > i]_vars
    /\ [][(pc' = "scan" /\ Unclosed(text, i))
            => (result' = Append(result, PlainSpan(<<At(text, i)>>)) /\ i' = i + 1)]_vars

\* C3 (as claimed): no input byte is dropped: the bytes the returned spans
\* hold (content, link URL, page id, formatting markers) are as many as the
\* input has.
C3_NoByteDropped ==
    pc = "returned" =>
        Len(Flatten([k \in 1..Len(result) |-> SpanSource(result[k], <<>>)])) = Len(text)

\* An unclosed "[" became a literal span next to a bold span.
C3_Witness ==
    /\ pc = "returned"
    /\ \E k \in 1..Len(result) : result[k].bold
    /\ \E k \in 1..Len(result) : result[k] = PlainSpan(<<"[">>)
    /\ \E k \in 0..(Len(text) - 1) : Unclosed(text, k)

\* The position of block k within its maximal run of numbered items.
RunPosition(bs, k) == k - Max({0} \cup {j \in 1..(k - 1) : ~IsNumbered(bs[j])})

\* C4: in the markdown of BlocksToMarkdown the k-th block of every maximal run
\* of consecutive numbered_list_item blocks is written with ordinal k, the
\* numbering starting at 1 and restarting after any other block.
C4_OrdinalReset ==
    pc \in {"rendered", "redecoded", "reencoded"} =>
        LET out == EncodeLoop(blocks, 1, [listNum |-> 1, lastType |-> ""], {})
        IN  /\ rendered = Flatten(out)
            /\ \A k \in 1..Len(blocks) :
                   IsNumbered(blocks[k]) =>
                       HasPrefix(out[k], Digits(RunPosition(blocks, k)) \o <<".", " ">>)

\* Numbered, numbered, bullet, numbered has been rendered.
C4_Witness ==
    /\ pc = "rendered"
    /\ [k \in 1..Len(blocks) |-> blocks[k].type]
         = <<"numbered_list_item", "numbered_list_item", "bulleted_list_item",
             "numbered_list_item">>

IsPipeLine(line) == Len(line) > 0 /\ line[1] = "|"

\* A separator row: only dashes, colons, pipes and spaces, and a dash among them.
IsSeparatorRow(line) ==
    /\ \A k \in 1..Len(line) : line[k] \in {"-", ":", "|", " "}
    /\ \E k \in 1..Len(line) : line[k] = "-"

\* Only dashes, colons, pipes and spaces.
IsDashColonPipeRow(line) == \A k \in 1..Len(line) : line[k] \in {"-", ":", "|", " "}

\* The maximal runs of consecutive "|" lines, as pairs <<first, last>>.
PipeRuns(lines) ==
    {r \in (1..Len(lines)) \X (1..Len(lines)) :
        /\ r[1] <= r[2]
        /\ \A k \in r[1]..r[2] : IsPipeLine(lines[k])
        /\ r[1] = 1 \/ ~IsPipeLine(lines[r[1] - 1])
        /\ r[2] = Len(lines) \/ ~IsPipeLine(lines[r[2] + 1])}

\* The rows of a run that are kept, in input order.
RECURSIVE KeptRows(_, _, _, _)
KeptRows(lines, from, to, needDash) ==
    IF from > to THEN <<>>
    ELSE (IF IF needDash THEN IsSeparatorRow(lines[from]) ELSE IsDashColonPipeRow(lines[from])
          THEN <<>> ELSE <<lines[from]>>)
         \o KeptRows(lines, from + 1, to, needDash)

\* The runs in input order.
RECURSIVE SortRuns(_)
SortRuns(runs) ==
    IF runs = {} THEN <<>>
    ELSE LET first == CHOOSE r \in runs : \A q \in runs : r[1] <= q[1]
         IN  <<first>> \o SortRuns(runs \ {first})

TablesOf(bs) == SelectSeq(bs, LAMBDA b : b.type = "table")

\* table is the decoding of the run: a header row, the kept rows in order,
\* every row as wide as the first kept row.
TableMatchesRun(table, lines, run, needDash) ==
    LET kept == KeptRows(lines, run[1], run[2], needDash)
        width == Len(parseCells(kept[1]))
    IN  /\ kept # <<>>
        /\ table.has_column_header
        /\ table.table_width = width
        /\ Len(table.children) = Len(kept)
        /\ \A r \in 1..Len(kept) :
              /\ Len(table.children[r]) = width
              /\ \A c \in 1..width :
                    table.children[r][c] =
                        parseInlineMarkdown(IF c <= Len(parseCells(kept[r]))
                                            THEN parseCells(kept[r])[c] ELSE <<>>)

----------------------------------------------------------------------------
(* Claims about the frontmatter *)

\* C6 (as claimed): parsing the header PullPage wrote returns the page id
\* PullPage wrote and, from parseFrontmatterFull, the ids of the page's child
\* pages in block order.
C6_FrontmatterRoundTrip ==
    pc = "parsed" =>
        /\ parsed.pageID = pageID
        /\ parsed.by = "full" => parsed.childPages = ChildPageIDs(remote)

----------------------------------------------------------------------------
(* Claims about PushPage and DiffPage *)

S_noID == "no notion_id found in frontmatter"

\* The file does not start with a frontmatter block.
HeaderMissing(f) == ~HasPrefix(f, S_open)

\* The frontmatter block is opened and never closed.
HeaderUnterminated(f) == HasPrefix(f, S_open) /\ Index(From(f, 4), S_close) = -1

\* The frontmatter block is closed and none of its lines is a notion_id line.
HeaderWithoutID(f) ==
    /\ HasPrefix(f, S_open)
    /\ Index(From(f, 4), S_close) # -1
    /\ LET lines == Split(Slice(f, 4, 4 + Index(From(f, 4), S_close)), NL)
       IN  \A k \in 1..Len(lines) : ~HasPrefix(lines[k], S_notionID)

\* The kinds of the calls issued so far.
CallKinds == {calls[k].kind : k \in 1..Len(calls)}

\* A call only the position-preserving strategy makes.
PreserveCallIssued == CallKinds \cap {"update", "delete", "after"} # {}

\* C7: PushPage and DiffPage on a file whose frontmatter is missing,
\* unterminated or without a notion_id line end at once with the error
\* "no notion_id found in frontmatter" (or the file could not be read), and
\* no remote call has been issued.
C7_IdentityError ==
    (pc # "start" /\ op \in {"push", "diff"}
     /\ (HeaderMissing(file) \/ HeaderUnterminated(file) \/ HeaderWithoutID(file)))
        => /\ pc = "done"
           /\ err \in {S_noID, "failed to read file"}
           /\ calls = <<>>
           /\ output = <<>>

\* DiffPage has returned the identity error for a file whose frontmatter is
\* not closed.
C7_Witness ==
    /\ pc = "done" /\ op = "diff" /\ err = S_noID
    /\ HeaderUnterminated(file)
    /\ calls = <<>>

RemoteHasChildPages == \E k \in 1..Len(currentBlocks) : currentBlocks[k].type = "child_page"

FirstRemoteIsChildPage == Len(currentBlocks) > 0 /\ currentBlocks[1].type = "child_page"

\* PushPage has fetched the page and chosen how to push.
Chosen == op = "push" /\ strategy # ""

\* A warning paragraph naming pageTitle is among the blocks to push.
WarningPushed(pageTitle) ==
    \E k \in 1..Len(newBlocks) :
        /\ newBlocks[k].type = "paragraph"
        /\ Len(newBlocks[k].rich_text) = 1
        /\ newBlocks[k].rich_text[1].content = WarningText(pageTitle)

\* C8 (as claimed): when the first block of the page is a child page and the
\* file has content before that child page's marker, PushPage pushes with
\* pushPageSimple, issues no placeholder update, block delete or insert-after
\* call, and the blocks it pushes hold a warning paragraph with the child
\* page's title.
C8_EdgeCaseFallsBack ==
    (Chosen /\ FirstRemoteIsChildPage
     /\ \E k \in 1..Len(childPagesInMarkdown) :
           /\ ReplaceAll(childPagesInMarkdown[k].ID, "-", <<>>)
                = ReplaceAll(currentBlocks[1].id, "-", <<>>)
           /\ childPagesInMarkdown[k].Position > 0)
        => /\ strategy = "simple"
           /\ ~PreserveCallIssued
           /\ WarningPushed(currentBlocks[1].title)

\* C9 (amended): PushPage runs pushPageSimple, and never the
\* position-preserving strategy, when the page has no child pages, or when
\* the first block of the page is a child page and the file has no child-page
\* marker; when the file has no marker and the page has child pages of which
\* none is the first block, PushPage runs the position-preserving strategy.
C9_FullReplaceWhen ==
    /\ (Chosen /\ (~RemoteHasChildPages
                   \/ (FirstRemoteIsChildPage /\ childPagesInMarkdown = <<>>)))
          => (strategy = "simple" /\ ~PreserveCallIssued)
    /\ (Chosen /\ childPagesInMarkdown = <<>> /\ RemoteHasChildPages
        /\ ~FirstRemoteIsChildPage)
          => (strategy = "preserve"
              /\ (Len(calls) > 1 => calls[2].kind = "update")
              /\ CallKinds \cap {"erase", "append", "restore"} = {})

\* C9 (as claimed): PushPage runs pushPageSimple, and never the
\* position-preserving strategy, whenever the page has no child pages or the
\* file has no child-page marker.
C9_FullReplaceWithoutMarkers ==
    (Chosen /\ (~RemoteHasChildPages \/ childPagesInMarkdown = <<>>))
        => (strategy = "simple" /\ ~PreserveCallIssued)

\* A file without markers was pushed with pushPageSimple to a page whose
\* first block is a child page.
C9_Witness ==
    /\ pc = "done" /\ Chosen /\ err = ""
    /\ FirstRemoteIsChildPage /\ childPagesInMarkdown = <<>>
    /\ strategy = "simple"
    /\ "erase" \in CallKinds /\ "restore" \in CallKinds

\* C10: when the page has blocks and all of them are child pages, a push
\* that entered pushPagePreservePositions goes on with pushPageSimple, having
\* issued no placeholder update, block delete or insert-after call, and it
\* returns no error when its erase, append and restore calls succeed.
C10_FallbackRule ==
    (Chosen /\ strategy # "simple"
     /\ \A k \in 1..Len(currentBlocks) : currentBlocks[k].type = "child_page")
        => /\ strategy = "fallback"
           /\ ~PreserveCallIssued
           /\ \A k \in 2..Len(calls) : calls[k].kind \in {"erase", "append", "restore"}
           /\ (pc = "done" /\ \A k \in 1..Len(calls) : calls[k].ok)
                 => (err = "" /\ "erase" \in CallKinds)

\* A push to a page of child pages only fell back and returned success.
C10_Witness ==
    /\ pc = "done" /\ Chosen /\ err = ""
    /\ strategy = "fallback"
    /\ Len(currentBlocks) > 0
    /\ "append" \in CallKinds /\ "restore" \in CallKinds

----------------------------------------------------------------------------
(* Claims about the remote calls of a push *)

\* The push runs pushPageSimple (called by PushPage or as the fallback).
FullReplace == op = "push" /\ strategy \in {"simple", "fallback"}

CallsOfKind(kind) == SelectSeq(calls, LAMBDA c : c.kind = kind)

\* The place of a call in the order erase, append, restore.
Rank(kind) == IF kind = "erase" THEN 1 ELSE IF kind = "append" THEN 2 ELSE 3

\* ceil(n / batchSize)
Batches(n) == (n + batchSize - 1) \div batchSize

\* The calls of pushPageSimple: those after the fetch of PushPage, if any.
ReplaceCalls == SelectSeq(calls, LAMBDA c : c.kind # "fetch")

\* C11: the calls of a full-replace push are one erase of the page, then the
\* append calls, then the restore calls; an append is issued only after a
\* successful erase and successful earlier appends, a restore only after
\* every batch was appended successfully, and a push that returns no error
\* has issued one restore for each child page of the fetched page, in page
\* order.
C11_FullReplaceOrder ==
    FullReplace =>
        LET cs == ReplaceCalls
        IN  /\ \A k \in 1..Len(cs) :
                  /\ cs[k].kind \in {"erase", "append", "restore"}
                  /\ (cs[k].kind = "erase") = (k = 1)
                  /\ cs[k].kind = "erase" => cs[k].target = pageID
                  /\ \A j \in 1..(k - 1) : Rank(cs[j].kind) <= Rank(cs[k].kind) /\ cs[j].ok
                  /\ cs[k].kind = "restore" =>
                         Len(CallsOfKind("append")) = Batches(Len(newBlocks))
            /\ (pc = "done" /\ err = "") =>
                  /\ Len(cs) > 0
                  /\ Len(CallsOfKind("append")) = Batches(Len(newBlocks))
                  /\ [k \in 1..Len(CallsOfKind("restore")) |-> CallsOfKind("restore")[k].target]
                        = ChildPageIDs(currentBlocks)

\* A full replace of three batches for a page of two child pages has
\* returned without error.
C11_Witness ==
    /\ FullReplace /\ pc = "done" /\ err = ""
    /\ Len(CallsOfKind("erase")) = 1
    /\ Len(CallsOfKind("append")) = 3
    /\ Len(CallsOfKind("restore")) = 2

\* The blocks the append calls carried, in call order.
Appended == Flatten([k \in 1..Len(CallsOfKind("append")) |-> CallsOfKind("append")[k].blocks])

\* C12: every append call of appendBlocksBatched carries between 1 and 100
\* blocks; the blocks carried so far, in call order, are the first blocks of
\* the list, and once the batches are through there were ceil(n / 100) calls
\* and the blocks carried are the list itself (no call for an empty list).
C12_Chunking ==
    FullReplace =>
        LET n == Len(newBlocks)
            sent == CallsOfKind("append")
        IN  /\ \A k \in 1..Len(sent) :
                  Len(sent[k].blocks) >= 1 /\ Len(sent[k].blocks) <= 100
            /\ Len(sent) <= Batches(n)
            /\ Appended = SubSeq(newBlocks, 1, IF 100 * Len(sent) < n THEN 100 * Len(sent) ELSE n)
            /\ (pc = "restore" \/ (pc = "done" /\ err # "failed to erase page"
                                   /\ err # "failed to append blocks"))
                  => (Len(sent) = Batches(n) /\ Appended = newBlocks)

\* A list of 201 blocks went out in three calls of 100, 100 and 1 blocks.
C12_Witness ==
    /\ FullReplace /\ pc = "done" /\ err = ""
    /\ Len(newBlocks) = 201
    /\ [k \in 1..Len(CallsOfKind("append")) |-> Len(CallsOfKind("append")[k].blocks)]
          = <<100, 100, 1>>

\* C13: an append call that failed is the last call of the push: no batch
\* follows it, no delete or erase undoes the batches appended before it, and
\* the push has returned the error.
C13_ChunkFailure ==
    FullReplace =>
        \A k \in 1..Len(calls) :
            (calls[k].kind = "append" /\ ~calls[k].ok)
                => /\ k = Len(calls)
                   /\ pc = "done"
                   /\ err = "failed to append blocks"

\* The second batch failed after the first one was appended.
C13_Witness ==
    /\ FullReplace /\ pc = "done" /\ err = "failed to append blocks"
    /\ Len(CallsOfKind("append")) = 2
    /\ CallsOfKind("append")[1].ok /\ ~CallsOfKind("append")[2].ok
    /\ Len(newBlocks) > 200

\* The push runs the five steps of pushPagePreservePositions.
Preserve == op = "push" /\ strategy = "preserve"

IsChildPage(b) == b.type = "child_page"

\* The ids of the child pages of the fetched page.
ChildIDs == {currentBlocks[k].id : k \in {j \in 1..Len(currentBlocks) : IsChildPage(currentBlocks[j])}}

\* id is the id of the first fetched block that is not a child page.
IsFirstContentBlock(id) ==
    \E k \in 1..Len(currentBlocks) :
        /\ currentBlocks[k].id = id
        /\ ~IsChildPage(currentBlocks[k])
        /\ \A j \in 1..(k - 1) : IsChildPage(currentBlocks[j])

\* The blocks the insert-after calls carried, in call order.
Inserted == Flatten([k \in 1..Len(CallsOfKind("after")) |-> CallsOfKind("after")[k].blocks])

IsAnchorDelete(c) == c.kind = "delete" /\ c.target = anchorBlockID

\* C14: in the position-preserving push the anchor is the first fetched block
\* that is not a child page; the first call overwrites it with an empty
\* paragraph and nothing is deleted unless that call succeeded; the delete of
\* the anchor is issued only once every insert call has succeeded and all new
\* blocks have been sent, it is the last call of a push that returns no
\* error, and it is never issued after a failed insert.
C14_PlaceholderLifecycle ==
    Preserve =>
        LET cs == ReplaceCalls
        IN  /\ IsFirstContentBlock(anchorBlockID)
            /\ Len(cs) > 0 => (cs[1].kind = "update" /\ cs[1].target = anchorBlockID)
            /\ \A k \in 2..Len(cs) : cs[k].kind # "update" /\ cs[1].ok
            /\ \A k \in 1..Len(cs) :
                  IsAnchorDelete(cs[k]) =>
                      /\ k = Len(cs) /\ pc = "done" /\ err = ""
                      /\ \A j \in 1..(k - 1) : cs[j].kind = "after" => cs[j].ok
                      /\ Inserted = newBlocks
            /\ (pc = "done" /\ err = "") => (Len(cs) > 1 /\ IsAnchorDelete(cs[Len(cs)]))
            /\ (\E k \in 1..Len(cs) : cs[k].kind = "after" /\ ~cs[k].ok)
                  => ~\E k \in 1..Len(cs) : IsAnchorDelete(cs[k])

\* A position-preserving push has ended without error after deleting another
\* block and inserting a section: its last call deleted the anchor.
C14_Witness ==
    /\ Preserve /\ pc = "done" /\ err = ""
    /\ Len(CallsOfKind("after")) > 0
    /\ Len(CallsOfKind("delete")) > 1
    /\ IsAnchorDelete(calls[Len(calls)])

\* The child pages of a page, in page order.
ChildPagesOn(page) == SelectSeq(page, IsChildPage)

\* C15: the position-preserving push issues no erase, and no update or delete
\* whose target is a child page; once step 2 is through a delete was issued
\* for every fetched block that is neither a child page nor the anchor; and
\* whatever calls succeeded, the child pages of the remote page and their
\* order are those the page had before the push.
C15_ChildPagesUntouched ==
    Preserve =>
        /\ \A k \in 1..Len(calls) :
              /\ calls[k].kind \notin {"erase", "append", "restore"}
              /\ calls[k].kind \in {"update", "delete"} => calls[k].target \notin ChildIDs
        /\ (pc \in {"insert", "delanchor"} \/ (pc = "done" /\ err # "failed to update anchor"))
              => \A k \in 1..Len(currentBlocks) :
                     (~IsChildPage(currentBlocks[k]) /\ currentBlocks[k].id # anchorBlockID)
                         => \E j \in 1..Len(calls) :
                                calls[j].kind = "delete" /\ calls[j].target = currentBlocks[k].id
        /\ ChildPagesOn(PageAfter(remote, remote, calls)) = ChildPagesOn(remote)

\* A position-preserving push has ended without error on a page with a child
\* page and a block to delete besides the anchor.
C15_Witness ==
    /\ Preserve /\ pc = "done" /\ err = ""
    /\ ChildIDs # {}
    /\ \E k \in 1..Len(calls) :
          calls[k].kind = "delete" /\ calls[k].ok /\ calls[k].target # anchorBlockID
    /\ Len(CallsOfKind("after")) > 0

\* The blocks the push put on the page: those without an id of the fetched page.
NewOn(page) == SelectSeq(page, LAMBDA b : b.id = <<>>)

\* C16 (as claimed): after a position-preserving push that returned no error
\* and whose calls all succeeded, the new blocks stand on the remote page in
\* the order of the local block sequence.
C16_OrderPreserved ==
    (Preserve /\ pc = "done" /\ err = "" /\ \A k \in 1..Len(calls) : calls[k].ok)
        => NewOn(PageAfter(remote, remote, calls)) = newBlocks

\* Marker k of the file names the child page b (ids compared without dashes).
Names(k, b) ==
    /\ IsChildPage(b)
    /\ ReplaceAll(b.id, "-", <<>>) = ReplaceAll(childPagesInMarkdown[k].ID, "-", <<>>)

\* The position of marker k among the new blocks, and the end of its section:
\* the position of the next marker, or the end of the block sequence.
CutAt(k) ==
    IF k > Len(childPagesInMarkdown) \/ childPagesInMarkdown[k].Position > Len(newBlocks)
    THEN Len(newBlocks) ELSE childPagesInMarkdown[k].Position

\* A successful insert-after call placed the blocks bs after the block id.
InsertedAfter(id, bs) ==
    \E j \in 1..Len(calls) :
        /\ calls[j].kind = "after" /\ calls[j].ok
        /\ calls[j].after = id
        /\ calls[j].blocks = bs

\* C17 (as claimed): in a position-preserving push that returned no error the
\* blocks before the first marker were inserted after the placeholder and,
\* for every marker that names a child page of the fetched page, the blocks
\* between that marker and the next one (or the end) were inserted after that
\* child page.
C17_SectionPartition ==
    (Preserve /\ pc = "done" /\ err = "") =>
        /\ CutAt(1) > 0 => InsertedAfter(anchorBlockID, SubSeq(newBlocks, 1, CutAt(1)))
        /\ \A k \in 1..Len(childPagesInMarkdown) :
              \A j \in 1..Len(currentBlocks) :
                  (Names(k, currentBlocks[j]) /\ CutAt(k) < CutAt(k + 1))
                      => InsertedAfter(currentBlocks[j].id,
                                       SubSeq(newBlocks, CutAt(k) + 1, CutAt(k + 1)))

----------------------------------------------------------------------------
(* Claims about PullPage and DiffPage *)

\* No two blocks of the page have the same id.
DistinctIDs(bs) == \A j, k \in 1..Len(bs) : j # k => bs[j].id # bs[k].id

\* Block k of the page is a child page with no other kind of block after it.
IsTrailing(k) == \A j \in k..Len(remote) : IsChildPage(remote[j])

\* The entry of a child page in the markdown.
MentionLine(b) ==
    <<"[", "@">> \o (IF b.title = <<>> THEN S_untitled ELSE b.title)
    \o <<"]", "(", "n", "o", "t", "i", "o", "n", ":", "/", "/">> \o b.id \o <<")", NL, NL>>

\* What the claim lets block k contribute to the markdown.
PulledEntry(k) ==
    IF IsChildPage(remote[k])
    THEN IF IsTrailing(k) THEN <<>> ELSE MentionLine(remote[k])
    ELSE BlocksToMarkdown(<<remote[k]>>)

\* C18: PullPage classes a child page as trailing exactly when no block other
\* than child pages follows it; the markdown it writes holds, block by block
\* in page order, nothing for a trailing child page, one entry naming the
\* page for every other child page, and the rendering of every other block
\* (on a page whose block ids are distinct).
C18_TrailingClassification ==
    (pc = "pulled" /\ DistinctIDs(remote)) =>
        /\ TrailingChildPages(remote)
              = {remote[k].id : k \in {j \in 1..Len(remote) :
                                          IsChildPage(remote[j]) /\ IsTrailing(j)}}
        /\ \E c \in PullComments :
              file = Frontmatter(pageID, title, ChildPageIDs(remote))
                     \o Flatten([k \in 1..Len(remote) |-> PulledEntry(k)])
                     \o CommentsMarkdown(c)

\* A page with a child page before its last paragraph and one after it was
\* pulled.
C18_Witness ==
    /\ pc = "pulled" /\ DistinctIDs(remote)
    /\ Len(remote) = 3
    /\ IsChildPage(remote[1]) /\ ~IsChildPage(remote[2]) /\ IsChildPage(remote[3])
    /\ TrailingChildPages(remote) = {remote[3].id}

\* The ids of the child pages that are not trailing, in page order.
NonTrailingIDs ==
    LET at == SelectSeq([k \in 1..Len(remote) |-> k],
                        LAMBDA k : IsChildPage(remote[k]) /\ ~IsTrailing(k))
    IN  [k \in 1..Len(at) |-> remote[at[k]].id]

\* C19 (as claimed): parseChildPageComments, applied to the page content of
\* the file PullPage wrote, returns one marker per child page that is not
\* trailing, with that page's id, in page order.
C19_MarkersSurvive ==
    (pc = "pulled" /\ DistinctIDs(remote)) =>
        LET found == parseChildPageComments(
                         extractCommentsSection(parseFrontmatter(file).markdown).content)
        IN  [k \in 1..Len(found) |-> found[k].ID] = NonTrailingIDs

\* C20: a DiffPage that returns no error returns "No changes detected." if
\* and only if the markdown of the file and the markdown rendered from the
\* fetched blocks are equal once surrounding whitespace is trimmed.
C20_NoChangesIff ==
    (op = "diff" /\ pc = "done" /\ err = "") =>
        ((output = S_noChanges)
            <=> (TrimSpace(parseFrontmatter(file).markdown)
                    = TrimSpace(BlocksToMarkdown(currentBlocks))))

\* DiffPage found a file with text equal to the page's.
C20_Witness ==
    /\ op = "diff" /\ pc = "done" /\ err = ""
    /\ output = S_noChanges
    /\ TrimSpace(parseFrontmatter(file).markdown) # <<>>
    /\ Len(currentBlocks) > 0

----------------------------------------------------------------------------
(* Claims about the report of DiffPage.                                    *)

\* The report the description of the diff promises: for every index where
\* the two lines differ, the remote line after "- " if the remote text has
\* a line at that index, then the local line after "+ " if the local text
\* has one.
ClaimedDiffEntries(localLines, notionLines) ==
    LET maxLines == Max({Len(localLines), Len(notionLines)})
        local(k) == IF k <= Len(localLines) THEN localLines[k] ELSE <<>>
        notion(k) == IF k <= Len(notionLines) THEN notionLines[k] ELSE <<>>
        entry(k) == IF local(k) = notion(k) THEN <<>>
                    ELSE (IF k <= Len(notionLines)
                          THEN <<"-", " ">> \o notion(k) \o <<NL>> ELSE <<>>)
                         \o (IF k <= Len(localLines)
                             THEN <<"+", " ">> \o local(k) \o <<NL>> ELSE <<>>)
    IN  Flatten([k \in 1..maxLines |-> entry(k)])

\* The lines of a text as the claim counts them: an empty text has none.
LinesOf(t) == IF t = <<>> THEN <<>> ELSE Split(t, NL)

\* C21 (as claimed): the report of a DiffPage that found changes is its
\* heading followed, for every index where the local and the remote line
\* differ, by the remote line with "- " and the local line with "+ ", a
\* side being left out only where its text has no line at that index;
\* equal lines contribute nothing.
C21_DiffShape ==
    (op = "diff" /\ pc = "done" /\ err = "" /\ output # S_noChanges) =>
        LET localLines == LinesOf(TrimSpace(parseFrontmatter(file).markdown))
            notionLines == LinesOf(TrimSpace(BlocksToMarkdown(currentBlocks)))
        IN  HasSuffix(output, <<NL, NL>> \o ClaimedDiffEntries(localLines, notionLines))

----------------------------------------------------------------------------
(* Claims about the name cache.                                            *)

LookupsFor(id) == {k \in 1..Len(calls) : calls[k].target = id}

\* C22 (state part): at most one user lookup has been issued per user id;
\* the cache holds exactly the ids looked up, each with the name its lookup
\* resolved, or "Unknown" when the lookup failed, did not parse or gave an
\* empty name; the call that just returned gave the cached value and no
\* error.
C22_OneLookupPerUser ==
    /\ \A id \in UserIDs : Cardinality(LookupsFor(id)) <= 1
    /\ DOMAIN userCache = {calls[k].target : k \in 1..Len(calls)}
    /\ \A k \in 1..Len(calls) :
          LET r == calls[k].resp
          IN  userCache[calls[k].target]
                 = IF r.err \/ ~r.parses \/ r.name = <<>> THEN S_unknown ELSE r.name
    /\ op = "resolveUserName" => (output = userCache[userID] /\ err = "")

\* A failed lookup and a successful one have been cached and the failed one
\* has been asked for again.
C22_Witness ==
    /\ Len(calls) = 2
    /\ calls[1].resp.err /\ ~calls[2].resp.err /\ calls[2].resp.parses
    /\ calls[2].resp.name = <<"n">>
    /\ userID = calls[1].target
    /\ output = S_unknown

\* C22 (step part): a call for an id the cache holds issues no lookup,
\* leaves the cache as it is and returns the stored value.
C22_LaterCallsUseCache ==
    [][CacheHas(userCache, userID') =>
          (calls' = calls /\ userCache' = userCache /\ output' = userCache[userID'])]_vars

\* C22: for any sequence of resolveUserName calls on one Client, both parts
\* hold: one lookup at most per user id, its outcome cached as the name or
\* as "Unknown", and every later call answered from the cache.
C22_NameCache == []C22_OneLookupPerUser /\ C22_LaterCallsUseCache

----------------------------------------------------------------------------
(* Claims about failed remote calls.                                       *)

\* The error PushPage returns for a failed call of each kind.
StepError(kind) ==
    CASE kind = "fetch" -> {"failed to fetch current blocks"}
      [] kind = "erase" -> {"failed to erase page"}
      [] kind = "append" -> {"failed to append blocks"}
      [] kind = "restore" -> {"failed to restore child pages"}
      [] kind = "update" -> {"failed to update anchor"}
      [] kind = "after" -> {"failed to insert section"}
      [] OTHER -> {"failed to delete block"}

\* C23 (as claimed): a remote call of a push that failed is the last call
\* the push issued (it is not retried and nothing follows it), and the push
\* has returned an error that names the step.
C23_ErrorsSurfaced ==
    op = "push" =>
        \A k \in 1..Len(calls) :
            ~calls[k].ok =>
                /\ k = Len(calls)
                /\ pc = "done"
                /\ err \in StepError(calls[k].kind)

----------------------------------------------------------------------------
(* Claims about the leniency of the block decoder.                         *)

\* A block that holds the text of the line: the paragraph decoded from it,
\* or a table with a row whose first cell is the line's first cell.
HoldsLine(b, line) ==
    \/ b.type = "paragraph" /\ b.rich_text = parseInlineMarkdown(line)
    \/ /\ b.type = "table"
       /\ \E r \in 1..Len(b.children) :
             b.children[r][1] = parseInlineMarkdown(parseCells(line)[1])

\* C24 (as claimed): MarkdownToBlocks returns a block list for every text
\* of paragraphs, table rows and blank lines, and every non-empty line that
\* is not a table separator row has its text in some block of the list;
\* a "|" line with no second row is not discarded.
C24_NothingDiscarded ==
    pc = "blocks" =>
        LET lines == splitLines(markdown)
        IN  \A k \in 1..Len(lines) :
                (lines[k] # <<>> /\ ~IsSeparatorRow(lines[k])) =>
                    \E n \in 1..Len(blocks) : HoldsLine(blocks[n], lines[k])

----------------------------------------------------------------------------
(* Claims about fetchAllBlocks.                                            *)

\* C25 (as claimed): a fetchAllBlocks that returns no error returns the
\* block tree of the page: the top-level blocks of all pages in remote
\* order, every block with children carrying its descendants, at any depth.
C25_FullTree ==
    (op = "fetchAllBlocks" /\ pc = "done" /\ err = "") => currentBlocks = remote

----------------------------------------------------------------------------
(* Claims about single block forms.                                        *)

\* C26: in a text with a line that starts with the fence, the lines after
\* the first such line, up to the next line that starts with the fence or
\* to the end of the input, are the content of one code block, joined by
\* line breaks and not decoded; the block list is the blocks of the lines
\* before, that code block, and the blocks of the lines after the closing
\* line, none when the fence is not closed.
C26_FencedCode ==
    (origin = "markdown" /\ pc = "blocks") =>
        LET lines == splitLines(markdown)
            fences == {k \in 1..Len(lines) : HasPrefix(lines[k], S_fence)}
        IN  fences # {} =>
                LET open == Min(fences)
                    later == {k \in fences : k > open}
                    close == IF later = {} THEN Len(lines) + 1 ELSE Min(later)
                    before == MarkdownToBlocks(LinesToText(SubSeq(lines, 1, open - 1)))
                    after == MarkdownToBlocks(LinesToText(SubSeq(lines, close + 1, Len(lines))))
                    code == blocks[Len(before) + 1]
                IN  /\ Len(blocks) = Len(before) + 1 + Len(after)
                    /\ SubSeq(blocks, 1, Len(before)) = before
                    /\ code.type = "code"
                    /\ code.rich_text
                          = <<PlainSpan(Join(SubSeq(lines, open + 1, close - 1), <<NL>>))>>
                    /\ SubSeq(blocks, Len(before) + 2, Len(blocks)) = after
                    /\ later = {} => Len(blocks) = Len(before) + 1

\* A fence that is not closed was decoded: an empty line and a line that
\* looks like a list item are the content of the only block.
C26_Witness ==
    /\ origin = "markdown" /\ pc = "blocks"
    /\ Len(blocks) = 1
    /\ blocks[1].type = "code"
    /\ blocks[1].rich_text = <<PlainSpan(<<NL, "-", " ", "a">>)>>

----------------------------------------------------------------------------
(* Claims about the comments section of a file.                            *)

\* C27 (as claimed): without a "## Comments" line the markdown is returned
\* unchanged with no comments.  With one such line, the comments are the
\* text after it and the content is all the text before the section, which
\* starts at the heading, or at the divider that introduces it (a divider
\* line and an empty line directly before the heading), whatever dividers
\* the text before holds; both parts with surrounding whitespace trimmed.
C27_NoBodyTextLost ==
    pc = "split" =>
        LET md == parseFrontmatter(file).markdown
            lines == splitLines(md)
            headings == {k \in 1..Len(lines) : lines[k] = S_commentsLine}
        IN  /\ headings = {} => parsed = [content |-> md, comments |-> <<>>]
            /\ Cardinality(headings) = 1 =>
                  LET k == Min(headings)
                      introduced == k > 2 /\ lines[k - 1] = <<>> /\ lines[k - 2] = S_divider
                      start == IF introduced THEN k - 2 ELSE k
                  IN  /\ parsed.comments = TrimSpace(LinesToText(SubSeq(lines, k + 1, Len(lines))))
                      /\ parsed.content = TrimSpace(LinesToText(SubSeq(lines, 1, start - 1)))

----------------------------------------------------------------------------
(* Claims about the block list and the markers PushPage takes from a file. *)

\* PushPage has built the block list of the file.
Prepared == op = "push" /\ pc \in {"erase", "update"}

\* The lines of the body of the file.
PreparedLines == splitLines(FileMarkdown.content)

IsCheckboxLine(line) == HasPrefix(line, <<"-", " ", "[", " ", "]", " ">>) \/ HasPrefix(line, <<"-", " ", "[", "x", "]", " ">>)

\* C28 (as claimed): in a body whose lines are one block each, a line is
\* decoded as a to_do block if and only if it starts with "- [ ] " or
\* "- [x] ", the space after the bracket included; the block is checked
\* if and only if the marker is "[x]", and its text is the line after these
\* six characters.
C28_Checkbox ==
    (/\ Prepared
     /\ \A k \in 1..Len(PreparedLines) :
           ~IsMarkerLine(PreparedLines[k]) /\ ~HasPrefix(PreparedLines[k], S_fence)) =>
        LET lines == SelectSeq(PreparedLines, LAMBDA l : l # <<>>)
        IN  /\ Len(newBlocks) = Len(lines)
            /\ \A k \in 1..Len(lines) :
                  /\ newBlocks[k].type = "to_do" <=> IsCheckboxLine(lines[k])
                  /\ IsCheckboxLine(lines[k]) =>
                        /\ newBlocks[k].checked <=> (lines[k][4] = "x")
                        /\ newBlocks[k].rich_text = parseInlineMarkdown(From(lines[k], 6))

\* The indices of the marker lines of the body.
MarkerLinesAt == {k \in 1..Len(PreparedLines) : IsMarkerLine(PreparedLines[k])}

\* The number of blocks MarkdownToBlocks produces from the lines before
\* line k of the body.
BlocksBefore(k) == Len(MarkdownToBlocks(LinesToText(SubSeq(PreparedLines, 1, k - 1))))

\* The numbers of a set of naturals, in ascending order.
RECURSIVE Ascending(_)
Ascending(ks) == IF ks = {} THEN <<>> ELSE <<Min(ks)>> \o Ascending(ks \ {Min(ks)})

\* C29 (as claimed): when the edge case gives a warning for the one marker
\* of the body, the block list PushPage builds is MarkdownToBlocks of the
\* body with the warning paragraph inserted before the first block that
\* follows the marker line, also when blocks before it span several lines.
C29_WarningPlacement ==
    (/\ Prepared
     /\ Cardinality(MarkerLinesAt) = 1
     /\ EdgeCase(CurrentChildPages(currentBlocks), childPagesInMarkdown).fallbackWarnings # <<>>) =>
        LET all == MarkdownToBlocks(FileMarkdown.content)
            at == BlocksBefore(Min(MarkerLinesAt))
        IN  newBlocks = SubSeq(all, 1, at)
                        \o <<WarningBlock(childPagesInMarkdown[1].Title)>>
                        \o SubSeq(all, at + 1, Len(all))

\* C30 (as claimed): parseChildPageComments returns one entry per marker
\* line of the body, in order, and the Position of each is the number of
\* blocks MarkdownToBlocks produces from the text before that line.
C30_PositionIsBlockIndex ==
    (op = "push" /\ pc = "fetch") =>
        LET at == Ascending(MarkerLinesAt)
        IN  /\ Len(childPagesInMarkdown) = Len(at)
            /\ \A j \in 1..Len(at) : childPagesInMarkdown[j].Position = BlocksBefore(at[j])

====
